---- MODULE Spec2Model ----
(***************************************************************************)
(* MS_RF_Board firmware: the task watchdog wrappers (RTOS/rtos_watchdog.c), *)
(* the start-up sequence and the five periodic tasks (main.c), and the      *)
(* application current limit (CurrentSensing/current_sensing.c).            *)
(*                                                                          *)
(* Time is counted in whole seconds, the unit of rtos_watchdog_init's       *)
(* timeout_s.  A vTaskDelay shorter than one second elapses between two     *)
(* ticks of the clock.  The task watchdog of the platform is modelled by    *)
(* its interface contract: one entry per subscribed task, each with the     *)
(* time since the task last reset it, and a panic when an entry reaches the *)
(* configured timeout.                                                      *)
(***************************************************************************)
EXTENDS Integers, Sequences, FiniteSets, TLC

\* ------------------------------------------------------------------ bounds
\* Seconds of wall-clock time explored.
MaxTime == 10
\* Number of current_sensing_set_limit calls explored.
MaxCalls == 3
\* command_parser_parse is called at most this many times.
MaxParses == 2
\* voltage_sensing_get_debounced() calls followed from another task.
MaxReads == 1
\* Pushes followed while one such call is under way.
MaxOverlap == 2
\* Cycles of each sensing task followed through their ADC reads.
MaxRuns == 2
\* Direct current_sensing_process() calls followed.
MaxProcess == 1
\* nvm_save, nvm_load and error_handling_recover calls followed.
MaxFaults == 1
\* Pushes to each filter followed when the channels are updated one by one.
MaxPushes == 2

\* ------------------------------------------------------- program constants
\* app_main and system_config_init: rtos_watchdog_init(5).
WDT_TIMEOUT_S == 5
\* rtos_watchdog_init: timeout_ms = timeout_s * 1000.
MS_PER_S == 1000

Tasks ==
    { "task_100ms_core_0", "task_10000ms_core_0", "task_1ms_core_1",
      "task_10ms_core_1", "task_1000ms_core_1" }

\* The order in which app_main creates the tasks.
TaskOrder ==
    << "task_100ms_core_0", "task_10000ms_core_0", "task_1ms_core_1",
       "task_10ms_core_1", "task_1000ms_core_1" >>

\* The argument of pdMS_TO_TICKS in each task's vTaskDelay, in milliseconds.
PeriodMs(t) ==
    CASE t = "task_100ms_core_0"   -> 100
      [] t = "task_10000ms_core_0" -> 10000
      [] t = "task_1ms_core_1"     -> 1
      [] t = "task_10ms_core_1"    -> 10
      [] t = "task_1000ms_core_1"  -> 1000

\* Whole seconds a task stays blocked in vTaskDelay.
DelaySeconds(t) == PeriodMs(t) \div MS_PER_S

\* The execution contexts that call the watchdog: the main task, which runs
\* app_main, and the periodic tasks.
MainTask == "main"
Contexts == Tasks \cup {MainTask}

\* The contexts that call the watchdog interface in the interface-level
\* specifications.
ApiContexts == {MainTask, "task_1ms_core_1", "task_1000ms_core_1"}

\* The tasks whose loop reads a sensor: task_10ms_core_1 runs
\* voltage_sensing_run, task_1000ms_core_1 runs battery_monitoring_run.
SensorTasks == { "task_10ms_core_1", "task_1000ms_core_1" }

\* The debounce buffers: battery_monitoring.c, voltage_sensing.c and the two
\* rows of current_sensing.c.
Filters == { "battery", "voltage", "current_1", "current_2" }

\* --------------------------------------------------------- esp_err_t values
ESP_OK == "ESP_OK"
ESP_ERR_INVALID_STATE == "ESP_ERR_INVALID_STATE"
ESP_ERR_INVALID_ARG == "ESP_ERR_INVALID_ARG"
ESP_ERR_NOT_FOUND == "ESP_ERR_NOT_FOUND"
ESP_ERR_TIMEOUT == "ESP_ERR_TIMEOUT"
ESP_FAIL == "ESP_FAIL"

VARIABLES
    mainPc,          \* where the main task is in app_main
    pc,              \* per task: "none", "init", "work", "feed", "delay"
    delayLeft,       \* per task: seconds left of its vTaskDelay
    feedsInCycle,    \* per task: rtos_watchdog_feed calls since the cycle began
    twdt,            \* the task watchdog: configuration and subscribed entries
    lastErr,         \* the esp_err_t the last watchdog wrapper call obtained
    fatal,           \* the watchdog panic has restarted the process
    escalations,     \* number of watchdog timeout events so far
    now,             \* seconds since start
    hist,            \* call history: who registered, and when each last fed
    app_current_limit, \* current_sensing.c: static float app_current_limit
    reqLog,          \* the limits requested so far, oldest first
    bat_last_measurements, \* battery_monitoring.c: static float last_measurements[5]
    bat_measurement_index, \* battery_monitoring.c: static int measurement_index
    bat_report,      \* what the last battery_monitoring_run computed and logged
    vs_last_measurements,  \* voltage_sensing.c: static float last_measurements[5]
    vs_measurement_index,  \* voltage_sensing.c: static int measurement_index
    cs_last_measurements,  \* current_sensing.c: static float last_measurements[2][5]
    cs_measurement_index,  \* current_sensing.c: static int measurement_index[2]
    recent,          \* the samples taken so far, oldest first, at most the last 5
    soc_call,        \* the last direct call of calculate_soc: argument and result
    parseLog,        \* the command_parser_parse calls so far: argument and outcome
    lifeLog,         \* the xxx_init / xxx_deinit calls system_config has made
    reader,          \* a voltage_sensing_get_debounced() call from another task
    writers,         \* per filter: the contexts that have written its buffer
    last_read,       \* per sensing task: how each of its ADC reads ended
    errLog           \* the nvm_save, nvm_load and error_handling_recover calls

vars ==
    << mainPc, pc, delayLeft, feedsInCycle, twdt, lastErr, fatal, escalations,
       now, hist, app_current_limit, reqLog,
       bat_last_measurements, bat_measurement_index, bat_report,
       vs_last_measurements, vs_measurement_index,
       cs_last_measurements, cs_measurement_index, recent, soc_call,
       parseLog, lifeLog, reader, writers, last_read, errLog >>

taskVars == << pc, delayLeft, feedsInCycle >>
wdtVars == << twdt, lastErr, fatal, escalations, now, hist >>
limitVars == << app_current_limit, reqLog >>
filterVars ==
    << bat_last_measurements, bat_measurement_index, bat_report,
       vs_last_measurements, vs_measurement_index,
       cs_last_measurements, cs_measurement_index, recent, soc_call >>
parserVars == << parseLog >>
lifeVars == << lifeLog >>
readerVars == << reader >>
ownerVars == << writers, last_read >>
errVars == << errLog >>

\* ------------------------------------------------------------ the watchdog
\* The watchdog before esp_task_wdt_init: no configuration, no entries.
TwdtNone ==
    [ init |-> FALSE, timeout_ms |-> 0, trigger_panic |-> FALSE,
      entries |-> << >> ]

\* Variant: the configuration without the panic on timeout.
wdt_config_NoPanic(timeout_s) ==
    [ timeout_ms |-> timeout_s * MS_PER_S, trigger_panic |-> FALSE ]

\* rtos_watchdog_init's configuration structure.  idle_core_mask also
\* subscribes the two idle tasks, which the platform's idle hooks feed; they
\* are not among the contexts followed here.
wdt_config(timeout_s) ==
    [ timeout_ms |-> timeout_s * MS_PER_S, trigger_panic |-> TRUE ]

\* esp_task_wdt_init(&wdt_config): fails when the watchdog is already
\* initialised and then leaves it as it is.
esp_task_wdt_init(w, cfg) ==
    IF w.init
    THEN [ w |-> w, err |-> ESP_ERR_INVALID_STATE ]
    ELSE [ w |-> [ init |-> TRUE, timeout_ms |-> cfg.timeout_ms,
                   trigger_panic |-> cfg.trigger_panic, entries |-> w.entries ],
           err |-> ESP_OK ]

\* Variant: adding a subscribed task succeeds and restarts its clock.
esp_task_wdt_add_Resubscribes(w, h) ==
    IF ~w.init
    THEN [ w |-> w, err |-> ESP_ERR_INVALID_STATE ]
    ELSE [ w |-> [w EXCEPT !.entries = (h :> 0) @@ w.entries], err |-> ESP_OK ]

\* esp_task_wdt_add(handle): subscribes the task with a fresh deadline clock;
\* fails when the watchdog is not initialised or the task is subscribed already.
esp_task_wdt_add(w, h) ==
    IF ~w.init
    THEN [ w |-> w, err |-> ESP_ERR_INVALID_STATE ]
    ELSE IF h \in DOMAIN w.entries
    THEN [ w |-> w, err |-> ESP_ERR_INVALID_ARG ]
    ELSE [ w |-> [w EXCEPT !.entries = (h :> 0) @@ w.entries], err |-> ESP_OK ]

\* Variant: the reset reports success and leaves the caller's clock running.
esp_task_wdt_reset_NoReset(w, caller) ==
    IF ~w.init
    THEN [ w |-> w, err |-> ESP_ERR_INVALID_STATE ]
    ELSE IF caller \notin DOMAIN w.entries
    THEN [ w |-> w, err |-> ESP_ERR_NOT_FOUND ]
    ELSE [ w |-> w, err |-> ESP_OK ]

\* Variant: the reset restarts the clock of every subscribed task.
esp_task_wdt_reset_All(w, caller) ==
    IF ~w.init
    THEN [ w |-> w, err |-> ESP_ERR_INVALID_STATE ]
    ELSE IF caller \notin DOMAIN w.entries
    THEN [ w |-> w, err |-> ESP_ERR_NOT_FOUND ]
    ELSE [ w |-> [w EXCEPT !.entries = [c \in DOMAIN w.entries |-> 0]],
           err |-> ESP_OK ]

\* esp_task_wdt_reset(): resets the calling task's deadline clock; fails when
\* the calling task is not subscribed.
esp_task_wdt_reset(w, caller) ==
    IF ~w.init
    THEN [ w |-> w, err |-> ESP_ERR_INVALID_STATE ]
    ELSE IF caller \notin DOMAIN w.entries
    THEN [ w |-> w, err |-> ESP_ERR_NOT_FOUND ]
    ELSE [ w |-> [w EXCEPT !.entries[caller] = 0], err |-> ESP_OK ]

\* Variant: the delete reports success and keeps the entry.
esp_task_wdt_delete_Keeps(w, h) ==
    IF ~w.init
    THEN [ w |-> w, err |-> ESP_ERR_INVALID_STATE ]
    ELSE IF h \notin DOMAIN w.entries
    THEN [ w |-> w, err |-> ESP_ERR_NOT_FOUND ]
    ELSE [ w |-> w, err |-> ESP_OK ]

\* esp_task_wdt_delete(handle): unsubscribes the task; fails when it is not
\* subscribed.
esp_task_wdt_delete(w, h) ==
    IF ~w.init
    THEN [ w |-> w, err |-> ESP_ERR_INVALID_STATE ]
    ELSE IF h \notin DOMAIN w.entries
    THEN [ w |-> w, err |-> ESP_ERR_NOT_FOUND ]
    ELSE [ w |-> [w EXCEPT !.entries =
                     [c \in (DOMAIN w.entries) \ {h} |-> w.entries[c]]],
           err |-> ESP_OK ]

\* rtos_watchdog_init(timeout_s) called by `caller`: configures the watchdog,
\* prints the error of esp_task_wdt_init, then adds the calling task and drops
\* the result of esp_task_wdt_add.
rtos_watchdog_init(w, caller, timeout_s) ==
    LET i == esp_task_wdt_init(w, wdt_config(timeout_s))
        a == esp_task_wdt_add(i.w, caller)
    IN  [ w |-> a.w, err |-> i.err ]

\* Variant: a feed from a task that is not subscribed subscribes it.
rtos_watchdog_feed_Subscribes(w, caller) ==
    IF w.init /\ caller \notin DOMAIN w.entries
    THEN [ w |-> [w EXCEPT !.entries = (caller :> 0) @@ w.entries], err |-> ESP_OK ]
    ELSE esp_task_wdt_reset(w, caller)

\* rtos_watchdog_feed() called by `caller`.
rtos_watchdog_feed(w, caller) ==
    esp_task_wdt_reset(w, caller)

\* rtos_watchdog_add_task(task_handle).
rtos_watchdog_add_task(w, task_handle) ==
    esp_task_wdt_add(w, task_handle)

\* rtos_watchdog_remove_task(task_handle).
rtos_watchdog_remove_task(w, task_handle) ==
    esp_task_wdt_delete(w, task_handle)

\* Variant: an entry expires only once its clock is past the timeout.
TwdtExpired_Late(w) ==
    { c \in DOMAIN w.entries : w.entries[c] * MS_PER_S > w.timeout_ms }

\* The entries whose clock has reached the configured timeout.
TwdtExpired(w) ==
    { c \in DOMAIN w.entries : w.entries[c] * MS_PER_S >= w.timeout_ms }

\* One second passes in the watchdog: every entry ages; when an entry reaches
\* the timeout the watchdog fires, and with trigger_panic the process restarts.
\* Without trigger_panic the timeout is reported and the timer is re-armed.
TwdtSecond(w) ==
    LET aged == [w EXCEPT !.entries = [c \in DOMAIN w.entries |-> w.entries[c] + 1]]
    IN  IF ~w.init \/ TwdtExpired(aged) = {}
        THEN [ w |-> aged, fired |-> FALSE, panic |-> FALSE ]
        ELSE IF w.trigger_panic
        THEN [ w |-> aged, fired |-> TRUE, panic |-> TRUE ]
        ELSE [ w |-> [w EXCEPT !.entries = [c \in DOMAIN w.entries |-> 0]],
               fired |-> TRUE, panic |-> FALSE ]

\* ------------------------------------------------------------ call history
\* Which contexts have asked to be registered and not been removed since, and
\* the time of each one's last registration or feed call.
HistNone == [ reg |-> {}, lastFeed |-> [c \in Contexts |-> -1] ]

HistRegister(h, c) ==
    IF c \in h.reg THEN h
    ELSE [ reg |-> h.reg \cup {c}, lastFeed |-> [h.lastFeed EXCEPT ![c] = now] ]

HistFeed(h, c) ==
    IF c \in h.reg THEN [h EXCEPT !.lastFeed[c] = now] ELSE h

HistRemove(h, c) ==
    [ reg |-> h.reg \ {c}, lastFeed |-> [h.lastFeed EXCEPT ![c] = -1] ]

\* A registered context has gone a whole timeout without feeding.
HistExpired ==
    \E c \in hist.reg : now - hist.lastFeed[c] >= WDT_TIMEOUT_S

\* -------------------------------------------------------- the current limit
\* Currents are counted in units of 2^-28 A, the spacing of the float values
\* between 2^-5 A and 2^-4 A; every float from 2^-5 A up is a whole number of
\* units.
UnitsPerAmp == 2^28

\* The spacing, in units, of the float values around a value of q units
\* (24-bit significand), for q >= 2^23.
RECURSIVE Ulp(_)
Ulp(q) == IF q < 2^24 THEN 1 ELSE 2 * Ulp(q \div 2)

\* The conversion to float of the positive real num/den units: the nearest
\* float, ties to the even significand.
F32(num, den) ==
    LET q   == num \div den
        u   == Ulp(q)
        lo  == (q \div u) * u
        rem == num - lo * den
    IN  IF 2 * rem > u * den THEN lo + u
        ELSE IF 2 * rem < u * den THEN lo
        ELSE IF (lo \div u) % 2 = 0 THEN lo ELSE lo + u

\* #define CURRENT_LIMIT_SAFE 0.1, a double constant: SafeNum / SafeDen units.
SafeNum == UnitsPerAmp
SafeDen == 2 * 5

\* float limit <= CURRENT_LIMIT_SAFE, compared in double: a float is a whole
\* number of units, so it is at most the constant iff it is at most its floor.
LeSafe(limit) == limit <= SafeNum \div SafeDen

\* Variant: the requested limit is stored without the comparison.
current_sensing_set_limit_NoClamp(limit) == limit

\* Variant: a one-way clamp, which never stores a limit above the one it holds.
current_sensing_set_limit_OneWay(limit) ==
    IF limit <= app_current_limit THEN limit ELSE app_current_limit

\* current_sensing_set_limit(limit): the value stored in app_current_limit.
\* The conditional expression is a double; storing it converts it to float,
\* which leaves a float operand as it is and rounds the constant.
current_sensing_set_limit(limit) ==
    IF LeSafe(limit) THEN limit ELSE F32(SafeNum, SafeDen)

\* current_sensing_get_limit().
current_sensing_get_limit == app_current_limit

\* The float values requested in the model: -1 A, 0 A, 0.05 A, the two floats
\* next to 0.1 A on either side, 1 A and 5 A.
Requests ==
    { 0 - UnitsPerAmp, 0, F32(UnitsPerAmp, 20),
      F32(SafeNum, SafeDen) - 2, F32(SafeNum, SafeDen), F32(SafeNum, SafeDen) + 2,
      UnitsPerAmp, 5 * UnitsPerAmp }

\* ------------------------------------------------------- the debounce filters
\* Voltages are counted in units of 2^-23 V, the spacing of the float values
\* between 1 V and 2 V. Every float from 1 V up is a whole number of units, and
\* so is every sum of such floats; F32 is exact for values from 1 V up and for
\* whole numbers of units below 2^24.
UnitsPerVolt == 2^23

\* a + b on two floats: the exact sum converted to float.
FAdd(a, b) == F32(a + b, 1)

\* The conversion to float of whole + num/den units (0 <= num < den), for
\* values too large to be written as one fraction.
F32Mixed(whole, num, den) ==
    LET u     == Ulp(whole)
        lo    == (whole \div u) * u
        twice == 2 * ((whole - lo) * den + num)
    IN  IF twice > u * den THEN lo + u
        ELSE IF twice < u * den THEN lo
        ELSE IF (lo \div u) % 2 = 0 THEN lo ELSE lo + u

\* battery_monitoring.c read_raw_voltage() for a calibrated ADC reading of mv
\* millivolts: ((float)mv / 1000.0) * 2.0 * 3.0 volts, returned as float. The
\* double product is within 2^-51 of mv * 6 / 1000, which is never that close
\* to the midpoint of two floats, so the result is the float nearest to
\* mv * 6 * 2^23 / 1000 = mv * (3 * 2^21) / 125 units.
battery_read_raw_voltage(mv) ==
    LET k == (3 * 2^21) \div 125
        r == (3 * 2^21) % 125
    IN  F32Mixed(mv * k + (mv * r) \div 125, (mv * r) % 125, 125)

\* What the ADC does with one adc_oneshot_read: the conversion succeeds with a
\* raw count, or the driver returns an error.
HwOk(raw) == [ err |-> ESP_OK, raw |-> raw ]
HwFailed == [ err |-> ESP_ERR_TIMEOUT, raw |-> 0 ]

\* adc_oneshot_read(handle, channel, &adc_raw): the value adc_raw holds after
\* the call. The driver stores the count only when it returns ESP_OK.
adc_oneshot_read(hw, adc_raw) == IF hw.err = ESP_OK THEN hw.raw ELSE adc_raw

\* The int "voltage" of the three read functions after the calibration step,
\* on a chip without calibration data: adc_cali_create_scheme_line_fitting
\* has failed, cali_handle is NULL and voltage = adc_raw.
Uncalibrated(adc_raw) == adc_raw

\* battery_monitoring.c read_raw_voltage(): "int adc_raw = 0", the read, whose
\* return value is not looked at, the calibration step and the conversion.
read_raw_voltage(hw) ==
    battery_read_raw_voltage(Uncalibrated(adc_oneshot_read(hw, 0)))

\* voltage_sensing.c read_raw_voltage(): the same, the conversion being
\* (float)voltage / 1000.0 * 10.0, the float nearest to mv / 100 volts
\* = mv * 2^21 / 25 units (the double operations stay far closer to that
\* value than it is to the midpoint of two floats).
vs_read_raw_voltage(hw) ==
    LET mv == Uncalibrated(adc_oneshot_read(hw, 0))
        k  == 2^21 \div 25
        r  == 2^21 % 25
    IN  F32Mixed(mv * k + (mv * r) \div 25, (mv * r) % 25, 25)

\* current_sensing.c read_raw_current(sensor): the same, the conversion being
\* ((float)voltage / 1000.0) / (0.015 * 20.0), the float nearest to mv / 300
\* amperes = mv * 2^21 / 75 of the units the current buffers are counted in.
read_raw_current(hw) ==
    LET mv == Uncalibrated(adc_oneshot_read(hw, 0))
        k  == 2^21 \div 75
        r  == 2^21 % 75
    IN  F32Mixed(mv * k + (mv * r) \div 75, (mv * r) % 75, 75)

\* #define DEBOUNCE_SAMPLES 5
DEBOUNCE_SAMPLES == 5

\* The loop "sum += last_measurements[i]" over the first n slots, in float.
RECURSIVE SumSlots(_, _)
SumSlots(buf, n) ==
    IF n = 0 THEN 0 ELSE FAdd(SumSlots(buf, n - 1), buf[n - 1])

\* Variant: the mean of the samples taken so far instead of the mean of all
\* slots.
get_debounced_voltage_MeanOfPushed(buf) ==
    IF recent = << >> THEN 0
    ELSE F32(SumSlots(buf, DEBOUNCE_SAMPLES), Len(recent))

\* Variant: the newest slot is left out of the sum.
get_debounced_voltage_SkipsLast(buf) ==
    F32(SumSlots(buf, DEBOUNCE_SAMPLES - 1), DEBOUNCE_SAMPLES)

\* Variant: the slots are summed from the last to the first.
get_debounced_voltage_Backwards(buf) ==
    F32(SumSlots([i \in 0 .. 4 |-> buf[4 - i]], DEBOUNCE_SAMPLES),
        DEBOUNCE_SAMPLES)

\* battery_monitoring.c get_debounced_voltage(): sum / DEBOUNCE_SAMPLES, a
\* float division.
get_debounced_voltage(buf) ==
    F32(SumSlots(buf, DEBOUNCE_SAMPLES), DEBOUNCE_SAMPLES)

\* battery_monitoring.c battery_monitoring_init(): the loop that zeroes the
\* buffer; the cursor is not touched.
battery_monitoring_init == [i \in 0 .. DEBOUNCE_SAMPLES - 1 |-> 0]

\* Variant: the cursor is advanced without the wrap.
update_debounce_buffer_NoWrap(buf, idx, voltage) ==
    [ last_measurements |-> [buf EXCEPT ![idx] = voltage],
      measurement_index |-> idx + 1 ]

\* Variant: the sample is written one slot past the cursor.
update_debounce_buffer_NextSlot(buf, idx, voltage) ==
    [ last_measurements |->
          [buf EXCEPT ![(idx + 1) % DEBOUNCE_SAMPLES] = voltage],
      measurement_index |-> (idx + 1) % DEBOUNCE_SAMPLES ]

\* battery_monitoring.c update_debounce_buffer(voltage): the buffer and the
\* cursor it leaves.
update_debounce_buffer(buf, idx, voltage) ==
    [ last_measurements |-> [buf EXCEPT ![idx] = voltage],
      measurement_index |-> (idx + 1) % DEBOUNCE_SAMPLES ]

\* voltage_sensing.c voltage_sensing_update(), its read_raw_voltage() having
\* returned voltage.
voltage_sensing_update(buf, idx, voltage) ==
    [ last_measurements |-> [buf EXCEPT ![idx] = voltage],
      measurement_index |-> (idx + 1) % 5 ]

\* sum / 5.0 as the double division leaves it, for a float sum of s units: the
\* quotient rounded to the 53-bit significand of a double, written as
\* whole + num/den units. A double near q units has 2^29 / Ulp(q) steps per
\* unit; s / 5 is never halfway between two of them, as no power of two is a
\* multiple of 5.
FifthAsDouble(s) ==
    LET whole == s \div 5
        den   == 2^29 \div Ulp(whole)
        exact == (s % 5) * (den \div 5)
        part  == (2 * (s % 5) * (den % 5) + 5) \div 10
    IN  [ whole |-> whole, num |-> exact + part, den |-> den ]

\* voltage_sensing.c voltage_sensing_get_debounced(): sum / 5.0, a double
\* division, whose result is converted to float by the return.
voltage_sensing_get_debounced(buf) ==
    LET q == FifthAsDouble(SumSlots(buf, 5))
    IN  F32Mixed(q.whole, q.num, q.den)

\* current_sensing.c: index = (sensor == SENSOR_1) ? 0 : 1
Sensors == {"SENSOR_1", "SENSOR_2"}
SensorIndex(sensor) == IF sensor = "SENSOR_1" THEN 0 ELSE 1

\* Variant: both sensors write at the cursor of SENSOR_1.
current_sensing_update_SharedCursor(bufs, idxs, sensor, current) ==
    LET index == SensorIndex(sensor)
    IN  [ last_measurements |-> [bufs EXCEPT ![index][idxs[0]] = current],
          measurement_index |->
              [idxs EXCEPT ![index] = (idxs[index] + 1) % 5] ]

\* Variant: the sample is stored in the rows of both sensors.
current_sensing_update_BothRows(bufs, idxs, sensor, current) ==
    LET index == SensorIndex(sensor)
    IN  [ last_measurements |->
              [s \in 0 .. 1 |-> [bufs[s] EXCEPT ![idxs[index]] = current]],
          measurement_index |->
              [idxs EXCEPT ![index] = (idxs[index] + 1) % 5] ]

\* current_sensing.c current_sensing_update(sensor), its read_raw_current()
\* having returned current: the two buffers and cursors it leaves.
current_sensing_update(bufs, idxs, sensor, current) ==
    LET index == SensorIndex(sensor)
    IN  [ last_measurements |->
              [bufs EXCEPT ![index][idxs[index]] = current],
          measurement_index |->
              [idxs EXCEPT ![index] = (idxs[index] + 1) % 5] ]

\* current_sensing.c current_sensing_get_debounced(sensor): sum / 5.0.
current_sensing_get_debounced(bufs, sensor) ==
    LET q == FifthAsDouble(SumSlots(bufs[SensorIndex(sensor)], 5))
    IN  F32Mixed(q.whole, q.num, q.den)

\* current_sensing.c current_sensing_process(): SENSOR_1, then SENSOR_2, the
\* two reads having returned c1 and c2.
current_sensing_process(bufs, idxs, c1, c2) ==
    LET a == current_sensing_update(bufs, idxs, "SENSOR_1", c1)
    IN  current_sensing_update(a.last_measurements, a.measurement_index,
                               "SENSOR_2", c2)

\* ------------------------------------------------------------ state of charge
\* Variant: the empty threshold itself is not at or below the threshold.
LeEmpty_Strict(voltage) == voltage < 9 * UnitsPerVolt

\* voltage >= BATTERY_FULL_VOLTAGE, compared in double. 12.6 V is not a whole
\* number of units and the double constant is within 2^-50 V of it, so a float
\* is at least the constant iff it is above the floor of 12.6 V in units.
GeFull(voltage) == voltage > (126 * UnitsPerVolt) \div 10

\* voltage <= BATTERY_EMPTY_VOLTAGE; 9.0 is exact.
LeEmpty(voltage) == voltage <= 9 * UnitsPerVolt

\* Variant: the quotient is rounded to the nearest integer, not truncated.
calculate_soc_Rounds(voltage) ==
    IF GeFull(voltage) THEN 100
    ELSE IF LeEmpty(voltage) THEN 0
    ELSE ((((voltage - 9 * UnitsPerVolt) \div 8) * 250)
              + (9 * UnitsPerVolt) \div 16)
         \div ((9 * UnitsPerVolt) \div 8)

\* Variant: the linear formula without the two clamps.
calculate_soc_NoClamp(voltage) ==
    (((voltage - 9 * UnitsPerVolt) \div 8) * 125)
        \div ((9 * UnitsPerVolt) \div 16)

\* Variant: the percentage is kept modulo 100, so that a full battery reads 0.
calculate_soc_WrapsAtFull(voltage) ==
    IF GeFull(voltage) THEN 100 % 100
    ELSE IF LeEmpty(voltage) THEN 0
    ELSE (((voltage - 9 * UnitsPerVolt) \div 8) * 125)
             \div ((9 * UnitsPerVolt) \div 16)

\* battery_monitoring.c calculate_soc(voltage). Between the thresholds the
\* argument is a float between 8 V and 16 V, a multiple of 8 units, and
\* (int)(((voltage - 9.0) / (12.6 - 9.0)) * 100) is the integer part of
\* (voltage - 9 V) * 125 / (9 * 2^22 units): the exact quotient is a multiple
\* of 1 / (9 * 2^20) and no integer, so the rounding of the double operations
\* (below 2^-45) does not reach the next integer.
calculate_soc(voltage) ==
    IF GeFull(voltage) THEN 100
    ELSE IF LeEmpty(voltage) THEN 0
    ELSE (((voltage - 9 * UnitsPerVolt) \div 8) * 125)
             \div ((9 * UnitsPerVolt) \div 16)

\* Variant: the average and the state of charge are taken before the sample
\* is pushed.
battery_monitoring_run_Stale(buf, idx, raw_voltage) ==
    LET f == update_debounce_buffer(buf, idx, raw_voltage)
        debounced_voltage == get_debounced_voltage(buf)
    IN  [ last_measurements |-> f.last_measurements,
          measurement_index |-> f.measurement_index,
          report |-> [ valid |-> TRUE,
                       raw_voltage |-> raw_voltage,
                       debounced_voltage |-> debounced_voltage,
                       soc |-> calculate_soc(debounced_voltage),
                       critical |-> LeEmpty(debounced_voltage) ] ]

\* battery_monitoring.c battery_monitoring_run(), its read_raw_voltage() having
\* returned raw_voltage: the buffer and cursor it leaves and what it logs.
battery_monitoring_run(buf, idx, raw_voltage) ==
    LET f == update_debounce_buffer(buf, idx, raw_voltage)
        debounced_voltage == get_debounced_voltage(f.last_measurements)
    IN  [ last_measurements |-> f.last_measurements,
          measurement_index |-> f.measurement_index,
          report |-> [ valid |-> TRUE,
                       raw_voltage |-> raw_voltage,
                       debounced_voltage |-> debounced_voltage,
                       soc |-> calculate_soc(debounced_voltage),
                       critical |-> LeEmpty(debounced_voltage) ] ]

\* The samples the sensing specification draws from: 0 V (an ADC that reads
\* nothing), 9.0 V, 10.0 V, the floats nearest 10.8 V and 12.6 V, and the
\* battery voltage read from 2134 mV (about 12.804 V).
Samples ==
    { 0, 9 * UnitsPerVolt, 10 * UnitsPerVolt,
      F32(108 * UnitsPerVolt, 10), F32(126 * UnitsPerVolt, 10),
      battery_read_raw_voltage(2134) }

\* No voltage_sensing_get_debounced() call from another task is under way and
\* none has returned: i is the loop counter (-1 outside a call), sum the local
\* sum, result the value returned. The rest is history: reads counts the
\* calls, overlap the pushes made while the call ran, seen the averages of
\* the buffer contents that existed while it ran.
ReaderIdle ==
    [ i |-> -1, sum |-> 0, valid |-> FALSE, result |-> 0,
      reads |-> 0, overlap |-> 0, seen |-> {} ]

\* The state the static initialisers and the xxx_init functions leave: every
\* buffer zeroed, every cursor 0, nothing reported yet.
FilterInit ==
    /\ bat_last_measurements = [i \in 0 .. DEBOUNCE_SAMPLES - 1 |-> 0]
    /\ bat_measurement_index = 0
    /\ bat_report = [ valid |-> FALSE, raw_voltage |-> 0,
                      debounced_voltage |-> 0, soc |-> 0, critical |-> FALSE ]
    /\ vs_last_measurements = [i \in 0 .. 4 |-> 0]
    /\ vs_measurement_index = 0
    /\ cs_last_measurements = [s \in 0 .. 1 |-> [i \in 0 .. 4 |-> 0]]
    /\ cs_measurement_index = [s \in 0 .. 1 |-> 0]
    /\ recent = << >>
    /\ soc_call = [ valid |-> FALSE, voltage |-> 0, soc |-> 0 ]
    /\ parseLog = << >>
    /\ lifeLog = << >>
    /\ reader = ReaderIdle
    /\ writers = [f \in Filters |-> {}]
    /\ last_read = [t \in SensorTasks |-> << >>]
    /\ errLog = << >>

\* ------------------------------------------- persistence and error handling
\* nvm.c nvm_save(key, value), the three NVS calls answering open_err, set_err
\* and commit_err: the value returned. Every failure is logged and answered
\* with false.
nvm_save(open_err, set_err, commit_err) ==
    IF open_err # ESP_OK THEN FALSE
    ELSE IF set_err = ESP_OK
    THEN IF commit_err = ESP_OK THEN TRUE ELSE FALSE
    ELSE FALSE

\* nvm.c nvm_load(key, value, length), the two NVS calls answering open_err
\* and get_err: the value returned.
nvm_load(open_err, get_err) ==
    IF open_err # ESP_OK THEN FALSE
    ELSE IF get_err = ESP_OK THEN TRUE ELSE FALSE

\* #define ERROR_CODE_CRITICAL -1
ERROR_CODE_CRITICAL == -1

\* Variant: every error code restarts the system.
error_handling_recover_AnyCode(error_code) == TRUE

\* error_handling.c error_handling_recover(error_code): whether esp_restart()
\* is called.
error_handling_recover(error_code) == error_code = ERROR_CODE_CRITICAL

\* ---------------------------------------------------------- command parser
\* A C string is the sequence of its characters before the terminating NUL;
\* a const char * argument is a null pointer or points to a C string.
NUL == "NUL"
CharAt(str, i) == IF i <= Len(str) THEN str[i] ELSE NUL
strlen(str) == Len(str)

\* Variant: the whole strings are compared, as strcmp does.
strncmp_Whole(s1, s2, n) == IF s1 = s2 THEN 0 ELSE 1

\* strncmp(s1, s2, n): 0 when the first n characters agree, the comparison
\* stopping after a NUL; 1 stands for any nonzero result.
strncmp(s1, s2, n) ==
    IF \A i \in 1 .. n :
           (\A j \in 1 .. i - 1 : CharAt(s1, j) # NUL)
               => CharAt(s1, i) = CharAt(s2, i)
    THEN 0 ELSE 1

\* The string literals "SET_FREQ" and "GET_STATUS".
STR_SET_FREQ == << "S", "E", "T", "_", "F", "R", "E", "Q" >>
STR_GET_STATUS == << "G", "E", "T", "_", "S", "T", "A", "T", "U", "S" >>

\* The format strings of the log lines.
LOG_EMPTY == "W: Received an empty or null command."
LOG_PARSING == "I: Parsing command: %s"
LOG_SET_FREQ == "I: Command validated: SET_FREQ"
LOG_GET_STATUS == "I: Command validated: GET_STATUS"
LOG_UNKNOWN == "W: Unknown command: %s"

\* Variant: no check for an empty or null command.
command_parser_parse_NoEmptyCheck(command) ==
    IF strncmp(command.chars, STR_SET_FREQ, 8) = 0
    THEN [ ret |-> TRUE, log |-> << LOG_PARSING, LOG_SET_FREQ >> ]
    ELSE IF strncmp(command.chars, STR_GET_STATUS, 10) = 0
    THEN [ ret |-> TRUE, log |-> << LOG_PARSING, LOG_GET_STATUS >> ]
    ELSE [ ret |-> FALSE, log |-> << LOG_PARSING, LOG_UNKNOWN >> ]

\* command_parser_parse(command): the value returned and the lines logged.
command_parser_parse(command) ==
    IF command.null \/ strlen(command.chars) = 0
    THEN [ ret |-> FALSE, log |-> << LOG_EMPTY >> ]
    ELSE IF strncmp(command.chars, STR_SET_FREQ, 8) = 0
    THEN [ ret |-> TRUE, log |-> << LOG_PARSING, LOG_SET_FREQ >> ]
    ELSE IF strncmp(command.chars, STR_GET_STATUS, 10) = 0
    THEN [ ret |-> TRUE, log |-> << LOG_PARSING, LOG_GET_STATUS >> ]
    ELSE [ ret |-> FALSE, log |-> << LOG_PARSING, LOG_UNKNOWN >> ]

\* A const char * argument.
NullPtr == [ null |-> TRUE, chars |-> << >> ]
Str(chars) == [ null |-> FALSE, chars |-> chars ]

\* The arguments of the model: NULL, "", "PING", "SET_FREQ", "SET_FREQ:100",
\* "SET_FREQUENCY_X", "set_freq", "SET_FRE", "XSET_FREQ", "GET_STATUS",
\* "GET_STATUS?", "GET_STATU" and "get_status".
Commands ==
    { NullPtr, Str(<< >>), Str(<< "P", "I", "N", "G" >>),
      Str(STR_SET_FREQ),
      Str(STR_SET_FREQ \o << ":", "1", "0", "0" >>),
      Str(STR_SET_FREQ \o << "U", "E", "N", "C", "Y", "_", "X" >>),
      Str(<< "s", "e", "t", "_", "f", "r", "e", "q" >>),
      Str(SubSeq(STR_SET_FREQ, 1, 7)),
      Str(<< "X" >> \o STR_SET_FREQ),
      Str(STR_GET_STATUS),
      Str(STR_GET_STATUS \o << "?" >>),
      Str(SubSeq(STR_GET_STATUS, 1, 9)),
      Str(<< "g", "e", "t", "_", "s", "t", "a", "t", "u", "s" >>) }

\* ----------------------------------------------------------- initial state
\* The state when app_main is entered: no task created, the watchdog not yet
\* initialised (the first rtos_watchdog_init is the call that configures it),
\* app_current_limit holding its initialiser.
Init ==
    /\ mainPc = "system_config_init"
    /\ pc = [t \in Tasks |-> "none"]
    /\ delayLeft = [t \in Tasks |-> 0]
    /\ feedsInCycle = [t \in Tasks |-> 0]
    /\ twdt = TwdtNone
    /\ lastErr = ESP_OK
    /\ fatal = FALSE
    /\ escalations = 0
    /\ now = 0
    /\ hist = HistNone
    /\ app_current_limit = F32(SafeNum, SafeDen)
    /\ reqLog = << >>
    /\ FilterInit

\* ------------------------------------------------------------------ app_main
\* The xxx_init calls of system_config_init(), in the order it makes them
\* (gate_driver_control_init is commented out).
InitCalls ==
    << "nvm", "error_handling", "bluetooth", "diagnostics", "command_parser",
       "voltage_sensing", "current_sensing", "battery_monitoring",
       "rtos_watchdog" >>

\* Variant: the components are taken down in the order they were brought up.
DeinitCalls_InitOrder == InitCalls

\* The xxx_deinit calls of system_config_deinit(), in the order it makes them.
DeinitCalls ==
    << "rtos_watchdog", "battery_monitoring", "current_sensing",
       "voltage_sensing", "command_parser", "diagnostics", "bluetooth",
       "error_handling", "nvm" >>

\* system_config_init(): initialises the components and, last, calls
\* rtos_watchdog_init(5) from the main task.
SystemConfigInit ==
    /\ ~fatal
    /\ mainPc = "system_config_init"
    /\ LET r == rtos_watchdog_init(twdt, MainTask, WDT_TIMEOUT_S)
       IN  twdt' = r.w /\ lastErr' = r.err
    /\ hist' = HistRegister(hist, MainTask)
    /\ lifeLog' = lifeLog \o [i \in 1 .. Len(InitCalls) |->
                                  [ op |-> "init", component |-> InitCalls[i] ]]
    /\ bat_last_measurements' = battery_monitoring_init
    /\ writers' = [writers EXCEPT !["battery"] = @ \cup {MainTask}]
    /\ mainPc' = "nvm_init"
    /\ UNCHANGED << taskVars, fatal, escalations, now, limitVars,
                    bat_measurement_index, bat_report, vs_last_measurements,
                    vs_measurement_index, cs_last_measurements,
                    cs_measurement_index, recent, soc_call, parserVars,
                    readerVars, last_read, errVars >>

\* app_main: nvm_init().
NvmInit ==
    /\ ~fatal
    /\ mainPc = "nvm_init"
    /\ mainPc' = "rtos_watchdog_init"
    /\ UNCHANGED << taskVars, wdtVars, limitVars, filterVars, parserVars,
                    lifeVars, readerVars, ownerVars, errVars >>

\* app_main: rtos_watchdog_init(5), the second call from the main task.
AppMainWatchdogInit ==
    /\ ~fatal
    /\ mainPc = "rtos_watchdog_init"
    /\ LET r == rtos_watchdog_init(twdt, MainTask, WDT_TIMEOUT_S)
       IN  twdt' = r.w /\ lastErr' = r.err
    /\ hist' = HistRegister(hist, MainTask)
    /\ mainPc' = "create_tasks"
    /\ UNCHANGED << taskVars, fatal, escalations, now, limitVars, filterVars,
                    parserVars, lifeVars, readerVars, ownerVars, errVars >>

\* app_main: the next xTaskCreatePinnedToCore, in the order of the source.
CreateTask ==
    /\ ~fatal
    /\ mainPc = "create_tasks"
    /\ \E i \in 1..Len(TaskOrder) :
          /\ pc[TaskOrder[i]] = "none"
          /\ \A j \in 1..(i - 1) : pc[TaskOrder[j]] # "none"
          /\ pc' = [pc EXCEPT ![TaskOrder[i]] = "init"]
    /\ UNCHANGED << mainPc, delayLeft, feedsInCycle, wdtVars, limitVars,
                    filterVars, parserVars, lifeVars, readerVars, ownerVars,
                    errVars >>

\* app_main returns after the last task is created; the main task ends
\* without unsubscribing from the watchdog.
AppMainReturn ==
    /\ ~fatal
    /\ mainPc = "create_tasks"
    /\ \A t \in Tasks : pc[t] # "none"
    /\ mainPc' = "returned"
    /\ UNCHANGED << taskVars, wdtVars, limitVars, filterVars, parserVars,
                    lifeVars, readerVars, ownerVars, errVars >>

\* ------------------------------------------------------- the periodic tasks
\* Variant: the loop goes from the work straight to vTaskDelay.
NextPc_SkipFeed(p) ==
    CASE p = "init"  -> "work"
      [] p = "work"  -> "delay"
      [] p = "feed"  -> "delay"
      [] p = "delay" -> "work"

\* The statement a task executes after the one at `p`: the module's init call,
\* then forever work, rtos_watchdog_feed, vTaskDelay.
NextPc(p) ==
    CASE p = "init"  -> "work"
      [] p = "work"  -> "feed"
      [] p = "feed"  -> "delay"
      [] p = "delay" -> "work"

\* The xxx_init() call(s) before the loop. Of the init functions the tasks
\* call, battery_monitoring_init() is the one that writes a filter.
TaskInit(t) ==
    /\ ~fatal
    /\ pc[t] = "init"
    /\ pc' = [pc EXCEPT ![t] = NextPc("init")]
    /\ IF t = "task_1000ms_core_1"
       THEN /\ bat_last_measurements' = battery_monitoring_init
            /\ writers' = [writers EXCEPT !["battery"] = @ \cup {t}]
       ELSE UNCHANGED << bat_last_measurements, writers >>
    /\ UNCHANGED << mainPc, delayLeft, feedsInCycle, wdtVars, limitVars,
                    bat_measurement_index, bat_report, vs_last_measurements,
                    vs_measurement_index, cs_last_measurements,
                    cs_measurement_index, recent, soc_call, parserVars,
                    lifeVars, readerVars, last_read, errVars >>

\* The xxx_run() call(s) of one cycle. Here the call only takes its turn in
\* the cycle; what the sensing runs do to the filters is followed in SenseCycle.
TaskWork(t) ==
    /\ ~fatal
    /\ pc[t] = "work"
    /\ pc' = [pc EXCEPT ![t] = NextPc("work")]
    /\ UNCHANGED << mainPc, delayLeft, feedsInCycle, wdtVars, limitVars,
                    filterVars, parserVars, lifeVars, readerVars, ownerVars,
                    errVars >>

\* rtos_watchdog_feed() from the task, which then enters vTaskDelay.
TaskFeed(t) ==
    /\ ~fatal
    /\ pc[t] = "feed"
    /\ LET r == rtos_watchdog_feed(twdt, t)
       IN  twdt' = r.w /\ lastErr' = r.err
    /\ hist' = HistFeed(hist, t)
    /\ feedsInCycle' = [feedsInCycle EXCEPT ![t] = @ + 1]
    /\ delayLeft' = [delayLeft EXCEPT ![t] = DelaySeconds(t)]
    /\ pc' = [pc EXCEPT ![t] = NextPc("feed")]
    /\ UNCHANGED << mainPc, fatal, escalations, now, limitVars, filterVars,
                    parserVars, lifeVars, readerVars, ownerVars, errVars >>

\* vTaskDelay returns once the delay has elapsed, and the next cycle begins.
TaskWake(t) ==
    /\ ~fatal
    /\ pc[t] = "delay"
    /\ delayLeft[t] = 0
    /\ pc' = [pc EXCEPT ![t] = NextPc("delay")]
    /\ feedsInCycle' = [feedsInCycle EXCEPT ![t] = 0]
    /\ UNCHANGED << mainPc, delayLeft, wdtVars, limitVars, filterVars,
                    parserVars, lifeVars, readerVars, ownerVars, errVars >>

\* ---------------------------------------------------------------- the clock
\* One second passes: delays run down and the watchdog timer advances.
TimerTick ==
    /\ ~fatal
    /\ now < MaxTime
    /\ now' = now + 1
    /\ delayLeft' = [t \in Tasks |->
                       IF pc[t] = "delay" /\ delayLeft[t] > 0
                       THEN delayLeft[t] - 1 ELSE delayLeft[t]]
    /\ LET r == TwdtSecond(twdt)
       IN  /\ twdt' = r.w
           /\ escalations' = IF r.fired THEN escalations + 1 ELSE escalations
           /\ fatal' = r.panic
    /\ UNCHANGED << mainPc, pc, feedsInCycle, lastErr, hist, limitVars,
                    filterVars, parserVars, lifeVars, readerVars, ownerVars,
                    errVars >>

Next ==
    \/ SystemConfigInit
    \/ NvmInit
    \/ AppMainWatchdogInit
    \/ CreateTask
    \/ AppMainReturn
    \/ \E t \in Tasks : TaskInit(t)
    \/ \E t \in Tasks : TaskWork(t)
    \/ \E t \in Tasks : TaskFeed(t)
    \/ \E t \in Tasks : TaskWake(t)
    \/ TimerTick

\* The firmware from the entry of app_main.
Spec == Init /\ [][Next]_vars

\* One statement of task t.
TaskStep(t) == TaskInit(t) \/ TaskWork(t) \/ TaskFeed(t) \/ TaskWake(t)

\* One statement of app_main.
MainStep ==
    \/ SystemConfigInit
    \/ NvmInit
    \/ AppMainWatchdogInit
    \/ CreateTask
    \/ AppMainReturn

\* The firmware under a scheduler that starves nobody: app_main and every
\* created task keep executing their next statement while they have one
\* (a task blocked in vTaskDelay has none until the delay is over), and time
\* keeps passing.
SpecFair ==
    /\ Spec
    /\ WF_vars(MainStep)
    /\ WF_vars(TimerTick)
    /\ \A t \in Tasks : WF_vars(TaskStep(t))

\* Time passes only while no task is behind: app_main has returned and every
\* task has run, fed and is blocked in its vTaskDelay.
OnTimeTick ==
    /\ mainPc = "returned"
    /\ \A t \in Tasks : pc[t] = "delay"
    /\ TimerTick

OnTimeNext ==
    \/ MainStep
    \/ \E t \in Tasks : TaskStep(t)
    \/ OnTimeTick

\* The firmware in the runs in which every task completes every cycle on time
\* and feeds in every cycle.
SpecOnTime == Init /\ [][OnTimeNext]_vars

\* --------------------------------------------- the watchdog interface alone
\* The watchdog as app_main's first rtos_watchdog_init(5) leaves it, called
\* from then on by any context in any order.
ApiStart ==
    /\ mainPc = "api"
    /\ pc = [t \in Tasks |-> "none"]
    /\ delayLeft = [t \in Tasks |-> 0]
    /\ feedsInCycle = [t \in Tasks |-> 0]
    /\ twdt = rtos_watchdog_init(TwdtNone, MainTask, WDT_TIMEOUT_S).w
    /\ lastErr = ESP_OK
    /\ fatal = FALSE
    /\ escalations = 0
    /\ now = 0
    /\ hist = [ reg |-> {MainTask},
                lastFeed |-> [c \in Contexts |-> IF c = MainTask THEN 0 ELSE -1] ]
    /\ app_current_limit = F32(SafeNum, SafeDen)
    /\ reqLog = << >>
    /\ FilterInit

\* rtos_watchdog_init(5) called again, by context c.
ApiInit(c) ==
    /\ ~fatal
    /\ LET r == rtos_watchdog_init(twdt, c, WDT_TIMEOUT_S)
       IN  twdt' = r.w /\ lastErr' = r.err
    /\ hist' = HistRegister(hist, c)
    /\ UNCHANGED << mainPc, taskVars, fatal, escalations, now, limitVars,
                    filterVars, parserVars, lifeVars, readerVars, ownerVars,
                    errVars >>

\* rtos_watchdog_add_task(c).
ApiAdd(c) ==
    /\ ~fatal
    /\ LET r == rtos_watchdog_add_task(twdt, c)
       IN  twdt' = r.w /\ lastErr' = r.err
    /\ hist' = HistRegister(hist, c)
    /\ UNCHANGED << mainPc, taskVars, fatal, escalations, now, limitVars,
                    filterVars, parserVars, lifeVars, readerVars, ownerVars,
                    errVars >>

\* rtos_watchdog_feed() called by context c.
ApiFeed(c) ==
    /\ ~fatal
    /\ LET r == rtos_watchdog_feed(twdt, c)
       IN  twdt' = r.w /\ lastErr' = r.err
    /\ hist' = HistFeed(hist, c)
    /\ UNCHANGED << mainPc, taskVars, fatal, escalations, now, limitVars,
                    filterVars, parserVars, lifeVars, readerVars, ownerVars,
                    errVars >>

\* rtos_watchdog_remove_task(c).
ApiRemove(c) ==
    /\ ~fatal
    /\ LET r == rtos_watchdog_remove_task(twdt, c)
       IN  twdt' = r.w /\ lastErr' = r.err
    /\ hist' = HistRemove(hist, c)
    /\ UNCHANGED << mainPc, taskVars, fatal, escalations, now, limitVars,
                    filterVars, parserVars, lifeVars, readerVars, ownerVars,
                    errVars >>

ApiNext ==
    \/ \E c \in ApiContexts : ApiInit(c)
    \/ \E c \in ApiContexts : ApiAdd(c)
    \/ \E c \in ApiContexts : ApiFeed(c)
    \/ \E c \in ApiContexts : ApiRemove(c)
    \/ TimerTick

SpecWdt == ApiStart /\ [][ApiNext]_vars

\* A second passes only while every registered context has fed less than a
\* timeout ago: the runs in which all feeds are on time.
TimelyTick ==
    /\ \A c \in hist.reg : (now + 1) - hist.lastFeed[c] < WDT_TIMEOUT_S
    /\ TimerTick

TimelyNext ==
    \/ \E c \in ApiContexts : ApiInit(c)
    \/ \E c \in ApiContexts : ApiAdd(c)
    \/ \E c \in ApiContexts : ApiFeed(c)
    \/ \E c \in ApiContexts : ApiRemove(c)
    \/ TimelyTick

SpecTimely == ApiStart /\ [][TimelyNext]_vars

\* ------------------------------------------------ the current limit interface
\* current_sensing_set_limit(r) for any requested float r.
SetLimit(r) ==
    /\ Len(reqLog) < MaxCalls
    /\ app_current_limit' = current_sensing_set_limit(r)
    /\ reqLog' = Append(reqLog, r)
    /\ UNCHANGED << mainPc, taskVars, wdtVars, filterVars, parserVars,
                    lifeVars, readerVars, ownerVars, errVars >>

LimitNext == \E r \in Requests : SetLimit(r)

SpecLimit == Init /\ [][LimitNext]_vars

\* ------------------------------------------------------- the sensing cycles
\* The samples taken, oldest first, once v has been taken: at most the last 5.
Remember(v) ==
    IF Len(recent) < 5 THEN Append(recent, v)
    ELSE Append(Tail(recent), v)

\* One sensing cycle in which every channel reads the same value v:
\* battery_monitoring_run(), voltage_sensing_run() and
\* current_sensing_process(). Each filter has its own buffer and cursor, so
\* each sees the sample sequence as if it ran alone.
SenseCycle(v) ==
    LET b == battery_monitoring_run(bat_last_measurements,
                                    bat_measurement_index, v)
        u == voltage_sensing_update(vs_last_measurements,
                                    vs_measurement_index, v)
        c == current_sensing_process(cs_last_measurements,
                                     cs_measurement_index, v, v)
    IN  /\ reader.i >= 0 => reader.overlap < MaxOverlap
        /\ bat_last_measurements' = b.last_measurements
        /\ bat_measurement_index' = b.measurement_index
        /\ bat_report' = b.report
        /\ vs_last_measurements' = u.last_measurements
        /\ vs_measurement_index' = u.measurement_index
        /\ cs_last_measurements' = c.last_measurements
        /\ cs_measurement_index' = c.measurement_index
        /\ recent' = Remember(v)
        /\ reader' =
               IF reader.i >= 0
               THEN [reader EXCEPT
                        !.overlap = @ + 1,
                        !.seen = @ \cup { voltage_sensing_get_debounced(
                                              u.last_measurements) }]
               ELSE reader
        /\ UNCHANGED << mainPc, taskVars, wdtVars, limitVars, soc_call,
                        parserVars, lifeVars, ownerVars, errVars >>

SenseNext == \E v \in Samples : SenseCycle(v)

SpecSense == Init /\ [][SenseNext]_vars

\* --------------------------------------------------- state of charge alone
\* The voltages calculate_soc is called with: every eighth of a volt from
\* -2 V to 16 V, the floats nearest 10.8 V and 12.6 V, the floats next to the
\* two thresholds, a cold-start average (12.6 V / 5) and 100 V.
SocInputs ==
    { k * (UnitsPerVolt \div 8) : k \in -16 .. 128 }
        \cup { F32(108 * UnitsPerVolt, 10), F32(126 * UnitsPerVolt, 10),
               F32(126 * UnitsPerVolt, 10) - 8, 9 * UnitsPerVolt + 8,
               F32(126 * UnitsPerVolt, 5 * 10), 100 * UnitsPerVolt }

\* calculate_soc(v) called on its own.
SocCall(v) ==
    /\ soc_call' = [ valid |-> TRUE, voltage |-> v, soc |-> calculate_soc(v) ]
    /\ UNCHANGED << mainPc, taskVars, wdtVars, limitVars,
                    bat_last_measurements, bat_measurement_index, bat_report,
                    vs_last_measurements, vs_measurement_index,
                    cs_last_measurements, cs_measurement_index, recent,
                    parserVars, lifeVars, readerVars, ownerVars, errVars >>

\* The sample of the sensing cycles that run next to the direct calls: a full
\* battery, whose average climbs from a fifth of 12.6 V to 12.6 V.
SocSamples == { F32(126 * UnitsPerVolt, 10) }

SocNext ==
    \/ \E v \in SocInputs : SocCall(v)
    \/ \E v \in SocSamples : SenseCycle(v)

SpecSoc == Init /\ [][SocNext]_vars

\* ------------------------------------------------- the command parser calls
\* Variant: a call that also puts the current limit back to the ceiling.
ParseCommand_ResetsLimit(c) ==
    /\ Len(parseLog) < MaxParses
    /\ parseLog' = Append(parseLog,
                          [ command |-> c,
                            ret |-> command_parser_parse(c).ret,
                            log |-> command_parser_parse(c).log ])
    /\ app_current_limit' = F32(SafeNum, SafeDen)
    /\ UNCHANGED << mainPc, taskVars, wdtVars, reqLog, filterVars, lifeVars,
                    readerVars, ownerVars, errVars >>

\* command_parser_parse(c) for any argument c.
ParseCommand(c) ==
    /\ Len(parseLog) < MaxParses
    /\ parseLog' = Append(parseLog,
                          [ command |-> c,
                            ret |-> command_parser_parse(c).ret,
                            log |-> command_parser_parse(c).log ])
    /\ UNCHANGED << mainPc, taskVars, wdtVars, limitVars, filterVars, lifeVars,
                    readerVars, ownerVars, errVars >>

ParseNext == \E c \in Commands : ParseCommand(c)

\* The parser called on its own.
SpecParse == Init /\ [][ParseNext]_vars

\* What the other components are asked to do between two commands: the limit
\* set to 0.05 A, a sensing cycle reading 10 V, the 1 ms task added to or
\* removed from the watchdog.
InPlaceNext ==
    \/ \E c \in Commands : ParseCommand(c)
    \/ SetLimit(F32(UnitsPerAmp, 20))
    \/ SenseCycle(10 * UnitsPerVolt)
    \/ ApiAdd("task_1ms_core_1")
    \/ ApiRemove("task_1ms_core_1")

\* The parser among the other components, the watchdog running.
SpecInPlace == ApiStart /\ [][InPlaceNext]_vars

\* ------------------------------------------- the sensing tasks and the ADC
\* Variant: a cycle whose read fails goes back to the delay without a sample
\* and without the feed.
TaskRun_StopsOnError(t, hw) ==
    /\ ~fatal
    /\ t \in SensorTasks
    /\ pc[t] = "work"
    /\ Len(last_read[t]) < MaxRuns
    /\ hw.err # ESP_OK
    /\ pc' = [pc EXCEPT ![t] = "delay"]
    /\ last_read' = [last_read EXCEPT ![t] = Append(@, hw.err)]
    /\ UNCHANGED << mainPc, delayLeft, feedsInCycle, wdtVars, limitVars,
                    filterVars, parserVars, lifeVars, readerVars, writers,
                    errVars >>

\* Variant: both sensing tasks push into the battery buffer.
TaskRun_SharedBuffer(t, hw) ==
    /\ ~fatal
    /\ t \in SensorTasks
    /\ pc[t] = "work"
    /\ Len(last_read[t]) < MaxRuns
    /\ pc' = [pc EXCEPT ![t] = NextPc("work")]
    /\ last_read' = [last_read EXCEPT ![t] = Append(@, hw.err)]
    /\ LET b == battery_monitoring_run(bat_last_measurements,
                                       bat_measurement_index,
                                       read_raw_voltage(hw))
       IN  /\ bat_last_measurements' = b.last_measurements
           /\ bat_measurement_index' = b.measurement_index
           /\ bat_report' = b.report
           /\ writers' = [writers EXCEPT !["battery"] = @ \cup {t}]
    /\ UNCHANGED << mainPc, delayLeft, feedsInCycle, wdtVars, limitVars,
                    vs_last_measurements, vs_measurement_index,
                    cs_last_measurements, cs_measurement_index, recent,
                    soc_call, parserVars, lifeVars, readerVars, errVars >>

\* The run call of one cycle of a sensing task, the ADC answering with hw:
\* battery_monitoring_run() in task_1000ms_core_1, voltage_sensing_run() in
\* task_10ms_core_1 (voltage_sensing_update(), then the average for the log).
\* current_sensing_run(), which task_10ms_core_1 calls next, is defined in
\* none of the source files and only takes its turn. MaxRuns cycles of each
\* task are followed.
TaskRun(t, hw) ==
    /\ ~fatal
    /\ t \in SensorTasks
    /\ pc[t] = "work"
    /\ Len(last_read[t]) < MaxRuns
    /\ pc' = [pc EXCEPT ![t] = NextPc("work")]
    /\ last_read' = [last_read EXCEPT ![t] = Append(@, hw.err)]
    /\ IF t = "task_1000ms_core_1"
       THEN LET b == battery_monitoring_run(bat_last_measurements,
                                           bat_measurement_index,
                                           read_raw_voltage(hw))
            IN  /\ bat_last_measurements' = b.last_measurements
                /\ bat_measurement_index' = b.measurement_index
                /\ bat_report' = b.report
                /\ writers' = [writers EXCEPT !["battery"] = @ \cup {t}]
                /\ UNCHANGED << vs_last_measurements, vs_measurement_index,
                                errVars >>
       ELSE LET u == voltage_sensing_update(vs_last_measurements,
                                           vs_measurement_index,
                                           vs_read_raw_voltage(hw))
            IN  /\ vs_last_measurements' = u.last_measurements
                /\ vs_measurement_index' = u.measurement_index
                /\ writers' = [writers EXCEPT !["voltage"] = @ \cup {t}]
                /\ UNCHANGED << bat_last_measurements, bat_measurement_index,
                                bat_report, errVars >>
    /\ UNCHANGED << mainPc, delayLeft, feedsInCycle, wdtVars, limitVars,
                    cs_last_measurements, cs_measurement_index, recent,
                    soc_call, parserVars, lifeVars, readerVars, errVars >>

\* current_sensing_process() called directly (no task of the firmware calls
\* it): current_sensing_update() for SENSOR_1 and for SENSOR_2, the ADC
\* answering the two reads with hw1 and hw2. MaxProcess calls are followed.
CurrentProcess(hw1, hw2) ==
    /\ ~fatal
    /\ cs_measurement_index[0] < MaxProcess
    /\ LET p == current_sensing_process(cs_last_measurements,
                                        cs_measurement_index,
                                        read_raw_current(hw1),
                                        read_raw_current(hw2))
       IN  /\ cs_last_measurements' = p.last_measurements
           /\ cs_measurement_index' = p.measurement_index
    /\ UNCHANGED << mainPc, taskVars, wdtVars, limitVars,
                    bat_last_measurements, bat_measurement_index, bat_report,
                    vs_last_measurements, vs_measurement_index, recent,
                    soc_call, parserVars, lifeVars, readerVars, ownerVars,
                    errVars >>

\* What the ADC answers in the model: an error, or the count 2134 (12.8 V
\* battery), 1000 (10 V load) or 3000 (10 A).
HwAnswers(channel) ==
    CASE channel = "battery" -> { HwFailed, HwOk(2134) }
      [] channel = "voltage" -> { HwFailed, HwOk(1000) }
      [] channel = "current" -> { HwFailed, HwOk(3000) }

\* The channel a sensing task reads.
ChannelOf(t) == IF t = "task_1000ms_core_1" THEN "battery" ELSE "voltage"

\* The firmware with the two sensing tasks followed through their reads.
SensingNext ==
    \/ SystemConfigInit
    \/ NvmInit
    \/ AppMainWatchdogInit
    \/ CreateTask
    \/ AppMainReturn
    \/ \E t \in SensorTasks : TaskInit(t)
    \/ \E t \in SensorTasks : \E hw \in HwAnswers(ChannelOf(t)) : TaskRun(t, hw)
    \/ \E t \in SensorTasks : TaskFeed(t)
    \/ \E t \in SensorTasks : TaskWake(t)
    \/ TimerTick

SpecSensing == Init /\ [][SensingNext]_vars

\* The same with current_sensing_process() called next to it.
FaultNext ==
    \/ SensingNext
    \/ \E hw \in HwAnswers("current") : CurrentProcess(hw, hw)

SpecFault == Init /\ [][FaultNext]_vars

\* ------------------------------------------------- the channels one by one
\* One current_sensing_update(sensor) call, the ADC answering its read with
\* hw (current_sensing_process makes two such calls, SENSOR_1 then SENSOR_2).
CurrentUpdate(sensor, hw) ==
    /\ cs_measurement_index[SensorIndex(sensor)] < MaxPushes
    /\ LET u == current_sensing_update(cs_last_measurements,
                                       cs_measurement_index, sensor,
                                       read_raw_current(hw))
       IN  /\ cs_last_measurements' = u.last_measurements
           /\ cs_measurement_index' = u.measurement_index
    /\ UNCHANGED << mainPc, taskVars, wdtVars, limitVars,
                    bat_last_measurements, bat_measurement_index, bat_report,
                    vs_last_measurements, vs_measurement_index, recent,
                    soc_call, parserVars, lifeVars, readerVars, ownerVars,
                    errVars >>

\* One voltage_sensing_update() call, the ADC answering its read with hw.
VoltageUpdate(hw) ==
    /\ vs_measurement_index < MaxPushes
    /\ LET u == voltage_sensing_update(vs_last_measurements,
                                       vs_measurement_index,
                                       vs_read_raw_voltage(hw))
       IN  /\ vs_last_measurements' = u.last_measurements
           /\ vs_measurement_index' = u.measurement_index
    /\ UNCHANGED << mainPc, taskVars, wdtVars, limitVars,
                    bat_last_measurements, bat_measurement_index, bat_report,
                    cs_last_measurements, cs_measurement_index, recent,
                    soc_call, parserVars, lifeVars, readerVars, ownerVars,
                    errVars >>

\* One battery_monitoring_run() call, the ADC answering its read with hw.
BatteryRun(hw) ==
    /\ bat_measurement_index < MaxPushes
    /\ LET b == battery_monitoring_run(bat_last_measurements,
                                       bat_measurement_index,
                                       read_raw_voltage(hw))
       IN  /\ bat_last_measurements' = b.last_measurements
           /\ bat_measurement_index' = b.measurement_index
           /\ bat_report' = b.report
    /\ UNCHANGED << mainPc, taskVars, wdtVars, limitVars,
                    vs_last_measurements, vs_measurement_index,
                    cs_last_measurements, cs_measurement_index, recent,
                    soc_call, parserVars, lifeVars, readerVars, ownerVars,
                    errVars >>

\* The channels updated one call at a time, in any order, among
\* current_sensing_set_limit(0.05) calls.
ChannelsNext ==
    \/ \E sensor \in Sensors : \E hw \in HwAnswers("current") :
           CurrentUpdate(sensor, hw)
    \/ \E hw \in HwAnswers("voltage") : VoltageUpdate(hw)
    \/ \E hw \in HwAnswers("battery") : BatteryRun(hw)
    \/ SetLimit(F32(UnitsPerAmp, 20))

SpecChannels == Init /\ [][ChannelsNext]_vars

\* ---------------------------------------------------------- error sources
\* nvm_save() called, the NVS calls answering open_err, set_err, commit_err.
NvmSave(open_err, set_err, commit_err) ==
    /\ ~fatal
    /\ Len(errLog) < MaxFaults
    /\ errLog' = Append(errLog,
                        [ fn |-> "nvm_save", code |-> 0, restart |-> FALSE,
                          ret |-> nvm_save(open_err, set_err, commit_err) ])
    /\ UNCHANGED << mainPc, taskVars, wdtVars, limitVars, filterVars,
                    parserVars, lifeVars, readerVars, ownerVars >>

\* nvm_load() called, the NVS calls answering open_err and get_err.
NvmLoad(open_err, get_err) ==
    /\ ~fatal
    /\ Len(errLog) < MaxFaults
    /\ errLog' = Append(errLog,
                        [ fn |-> "nvm_load", code |-> 0, restart |-> FALSE,
                          ret |-> nvm_load(open_err, get_err) ])
    /\ UNCHANGED << mainPc, taskVars, wdtVars, limitVars, filterVars,
                    parserVars, lifeVars, readerVars, ownerVars >>

\* error_handling_recover(error_code) called: esp_restart() restarts the
\* process when the code is ERROR_CODE_CRITICAL.
Recover(error_code) ==
    /\ ~fatal
    /\ Len(errLog) < MaxFaults
    /\ errLog' = Append(errLog,
                        [ fn |-> "error_handling_recover",
                          code |-> error_code,
                          restart |-> error_handling_recover(error_code),
                          ret |-> TRUE ])
    /\ fatal' = error_handling_recover(error_code)
    /\ UNCHANGED << mainPc, taskVars, twdt, lastErr, escalations, now, hist,
                    limitVars, filterVars, parserVars, lifeVars, readerVars,
                    ownerVars >>

\* What the NVS calls answer in the model.
NvsAnswers == { ESP_OK, ESP_FAIL }

\* The error sources next to the running watchdog: failed sensor reads, the
\* parser on NULL, "PING" and "GET_STATUS", the watchdog interface used by
\* the registered main task and by the unregistered 1 ms task, persistence
\* calls that fail or succeed, error_handling_recover with ERROR_CODE_CRITICAL,
\* 0 and 1, and the passing seconds.
ErrorsNext ==
    \/ CurrentProcess(HwFailed, HwFailed)
    \/ \E c \in { NullPtr, Str(<< "P", "I", "N", "G" >>), Str(STR_GET_STATUS) } :
           ParseCommand(c)
    \/ \E c \in { MainTask, "task_1ms_core_1" } : ApiAdd(c)
    \/ ApiFeed("task_1ms_core_1")
    \/ ApiRemove("task_1ms_core_1")
    \/ \E o, w, c \in NvsAnswers : NvmSave(o, w, c)
    \/ \E o, g \in NvsAnswers : NvmLoad(o, g)
    \/ \E code \in { ERROR_CODE_CRITICAL, 0, 1 } : Recover(code)
    \/ TimerTick

SpecErrors == ApiStart /\ [][ErrorsNext]_vars

\* ------------------------------------------------- a reader in another task
\* voltage_sensing_get_debounced() called from a task other than the 10 ms
\* task, which goes on pushing: entry ("float sum = 0").
ReadBegin ==
    /\ reader.i = -1
    /\ reader.reads < MaxReads
    /\ reader' = [ i |-> 0, sum |-> 0, valid |-> FALSE, result |-> 0,
                   reads |-> reader.reads + 1, overlap |-> 0,
                   seen |-> { voltage_sensing_get_debounced(
                                  vs_last_measurements) } ]
    /\ UNCHANGED << mainPc, taskVars, wdtVars, limitVars, filterVars,
                    parserVars, lifeVars, ownerVars, errVars >>

\* Variant: every pass adds slot 0.
ReadSlot_Rereads ==
    /\ reader.i \in 0 .. 4
    /\ reader' = [reader EXCEPT !.i = @ + 1,
                                !.sum = FAdd(@, vs_last_measurements[0])]
    /\ UNCHANGED << mainPc, taskVars, wdtVars, limitVars, filterVars,
                    parserVars, lifeVars, ownerVars, errVars >>

\* Variant: the passes start at the cursor, oldest sample first.
ReadSlot_FromCursor ==
    /\ reader.i \in 0 .. 4
    /\ reader' = [reader EXCEPT
                     !.i = @ + 1,
                     !.sum = FAdd(@, vs_last_measurements[
                                         (reader.i + vs_measurement_index) % 5])]
    /\ UNCHANGED << mainPc, taskVars, wdtVars, limitVars, filterVars,
                    parserVars, lifeVars, ownerVars, errVars >>

\* One pass of its loop: "sum += last_measurements[i]".
ReadSlot ==
    /\ reader.i \in 0 .. 4
    /\ reader' = [reader EXCEPT !.i = @ + 1,
                                !.sum = FAdd(@, vs_last_measurements[reader.i])]
    /\ UNCHANGED << mainPc, taskVars, wdtVars, limitVars, filterVars,
                    parserVars, lifeVars, ownerVars, errVars >>

\* "return sum / 5.0".
ReadEnd ==
    /\ reader.i = 5
    /\ LET q == FifthAsDouble(reader.sum)
       IN  reader' = [reader EXCEPT !.i = -1, !.valid = TRUE,
                                    !.result = F32Mixed(q.whole, q.num, q.den)]
    /\ UNCHANGED << mainPc, taskVars, wdtVars, limitVars, filterVars,
                    parserVars, lifeVars, ownerVars, errVars >>

\* The samples pushed next to the reader: 9.0 V and the float nearest 12.6 V.
ReaderSamples == { 9 * UnitsPerVolt, F32(126 * UnitsPerVolt, 10) }

ReaderNext ==
    \/ ReadBegin
    \/ ReadSlot
    \/ ReadEnd
    \/ \E v \in ReaderSamples : SenseCycle(v)

SpecReader == Init /\ [][ReaderNext]_vars

\* --------------------------------------------------------------- the teardown
\* The number of xxx_deinit calls system_config_deinit() has made.
DeinitDone ==
    Cardinality({ i \in 1 .. Len(lifeLog) : lifeLog[i].op = "deinit" })

\* The next call of system_config_deinit(), once system_config_init() has
\* returned; one teardown is followed. What a component's deinit does to the
\* drivers below it (ADC unit, Bluetooth stack, flash) is not followed, and
\* rtos_watchdog_deinit() is declared in rtos_watchdog.h but defined in none of
\* the source files: each call is only entered in the log.
SystemConfigDeinitCall ==
    /\ mainPc # "system_config_init"
    /\ DeinitDone < Len(DeinitCalls)
    /\ lifeLog' = Append(lifeLog, [ op |-> "deinit",
                                    component |-> DeinitCalls[DeinitDone + 1] ])
    /\ UNCHANGED << mainPc, taskVars, wdtVars, limitVars, filterVars,
                    parserVars, readerVars, ownerVars, errVars >>

\* What goes on around the teardown: limits are requested (0.05 A, 5 A) and
\* commands are parsed ("PING", "GET_STATUS").
TeardownNext ==
    \/ SystemConfigInit
    \/ SystemConfigDeinitCall
    \/ \E r \in { F32(UnitsPerAmp, 20), 5 * UnitsPerAmp } : SetLimit(r)
    \/ \E c \in { Str(<< "P", "I", "N", "G" >>), Str(STR_GET_STATUS) } :
           ParseCommand(c)

SpecTeardown == Init /\ [][TeardownNext]_vars

\* ==================================================================== claims
\* The float that holds the safety ceiling: CURRENT_LIMIT_SAFE converted to the
\* type of app_current_limit.
SafeMaxF == F32(SafeNum, SafeDen)

\* C1: a registered context that lets the 5 s deadline pass without a feed
\* puts the process in the fatal state, the fatal state is entered for no
\* other reason, and no step is taken once it is entered.
C1_MissedDeadlineIsFatal ==
    /\ [](fatal <=> HistExpired)
    /\ [][~fatal]_vars

C1_Witness ==
    /\ fatal
    /\ \E c \in hist.reg : now - hist.lastFeed[c] = WDT_TIMEOUT_S

\* C2 (as claimed): every periodic task that has started its loop has an entry
\* in the watchdog's table, so every task that feeds is registered.
C2_RunningTasksRegistered ==
    \A t \in Tasks :
        pc[t] \in {"work", "feed", "delay"} => t \in DOMAIN twdt.entries

C4_TimelyFeedsNeverEscalate ==
    ~fatal /\ escalations = 0

C4_Witness ==
    /\ now = 2 * (WDT_TIMEOUT_S - 1)
    /\ MainTask \in DOMAIN twdt.entries
    /\ hist.lastFeed[MainTask] = now
    /\ lastErr = ESP_OK
    /\ ~fatal

\* C5: the number of watchdog timeout events is 1 once a registered context
\* has missed its deadline, and 0 before.
C5_ExactlyOneEscalation ==
    escalations = IF HistExpired THEN 1 ELSE 0

C5_Witness ==
    /\ escalations = 1
    /\ mainPc = "returned"
    /\ now - hist.lastFeed[MainTask] = WDT_TIMEOUT_S

C7_UnregisteredFeedHarmless ==
    [][\A t \in Tasks :
          (t \notin DOMAIN twdt.entries /\ TaskFeed(t)) =>
            /\ twdt' = twdt
            /\ lastErr' = ESP_ERR_NOT_FOUND
            /\ fatal' = fatal /\ escalations' = escalations
            /\ pc'[t] = "delay"]_vars

C7_Witness ==
    /\ lastErr = ESP_ERR_NOT_FOUND
    /\ pc["task_100ms_core_0"] = "delay"
    /\ "task_100ms_core_0" \notin DOMAIN twdt.entries
    /\ ~fatal

\* C8: rtos_watchdog_remove_task leaves no entry for the context and does not
\* touch the other entries; removing a context that has no entry fails and
\* changes nothing; the table holds exactly the contexts registered and not
\* removed since, so a timeout is only ever that of a registered context.
C8_DeregisterRemoves ==
    /\ [](DOMAIN twdt.entries = hist.reg)
    /\ [](fatal => TwdtExpired(twdt) # {} /\ TwdtExpired(twdt) \subseteq hist.reg)
    /\ [][\A c \in ApiContexts :
            ApiRemove(c) =>
              /\ DOMAIN twdt'.entries = (DOMAIN twdt.entries) \ {c}
              /\ \A d \in DOMAIN twdt'.entries : twdt'.entries[d] = twdt.entries[d]
              /\ fatal' = fatal /\ escalations' = escalations
              /\ c \notin DOMAIN twdt.entries =>
                    twdt' = twdt /\ lastErr' # ESP_OK]_vars

C8_Witness ==
    /\ MainTask \notin DOMAIN twdt.entries
    /\ DOMAIN twdt.entries # {}
    /\ now = 2 * WDT_TIMEOUT_S
    /\ ~fatal

\* C9: a feed by a registered context sets that context's clock to 0 and
\* leaves every other entry as it is, so each entry's clock is the time since
\* its own context last fed.
C9_FeedResetsOnlyOwnClock ==
    /\ [](\A c \in hist.reg :
            c \in DOMAIN twdt.entries /\ twdt.entries[c] = now - hist.lastFeed[c])
    /\ [][\A c \in ApiContexts :
            (c \in DOMAIN twdt.entries /\ ApiFeed(c)) =>
              /\ DOMAIN twdt'.entries = DOMAIN twdt.entries
              /\ \A d \in DOMAIN twdt.entries :
                    twdt'.entries[d] = IF d = c THEN 0 ELSE twdt.entries[d]]_vars

C9_Witness ==
    /\ lastErr = ESP_OK
    /\ DOMAIN twdt.entries = ApiContexts
    /\ twdt.entries["task_1ms_core_1"] = 0
    /\ twdt.entries["task_1000ms_core_1"] = 2
    /\ twdt.entries[MainTask] = 4
    /\ ~fatal

\* C10: the value current_sensing_get_limit returns is never above the float
\* that holds the safety ceiling, at start and after any set_limit calls.
C10_LimitNeverAboveCeiling ==
    current_sensing_get_limit <= SafeMaxF

C10_Witness ==
    /\ Len(reqLog) = MaxCalls
    /\ reqLog[1] = 5 * UnitsPerAmp
    /\ reqLog[Len(reqLog)] = SafeMaxF + 2
    /\ current_sensing_get_limit = SafeMaxF

\* C11: after any set_limit calls, get_limit returns the smaller of the last
\* requested value and the ceiling, whatever was requested before: 5 A gives
\* the ceiling, 0.05 A and -1 A are stored as requested, and a lowered limit
\* can be raised again.
C11_LimitIsMinOfLastRequest ==
    reqLog # << >> =>
        LET r == reqLog[Len(reqLog)]
        IN  /\ r <= SafeMaxF => current_sensing_get_limit = r
            /\ r > SafeMaxF => current_sensing_get_limit = SafeMaxF

C11_Witness ==
    /\ reqLog = << 0 - UnitsPerAmp, 5 * UnitsPerAmp, F32(UnitsPerAmp, 20) >>
    /\ current_sensing_get_limit = F32(UnitsPerAmp, 20)
    /\ current_sensing_get_limit > reqLog[1]

\* The sample a sensing cycle has just taken.
Newest == recent[Len(recent)]

\* A push of v on a filter with K slots, from buffer b and cursor c to buffer
\* bn and cursor cn: v in the slot the cursor pointed at, the other slots as
\* they were, the cursor one further, wrapping at K.
PushEffect(b, c, bn, cn, v, K) ==
    /\ bn[c] = v
    /\ \A i \in (0 .. K - 1) \ {c} : bn[i] = b[i]
    /\ cn = (c + 1) % K

\* C12: a push writes the sample into exactly the slot the cursor points at,
\* leaves the other K-1 slots unchanged and then moves the cursor to
\* (cursor + 1) mod K, in the battery, the load-voltage and both current
\* filters.
C12_PushWritesOneSlot ==
    [][ LET v == Newest'
        IN  /\ PushEffect(bat_last_measurements, bat_measurement_index,
                          bat_last_measurements', bat_measurement_index', v, 5)
            /\ PushEffect(vs_last_measurements, vs_measurement_index,
                          vs_last_measurements', vs_measurement_index', v, 5)
            /\ \A s \in 0 .. 1 :
                   PushEffect(cs_last_measurements[s], cs_measurement_index[s],
                              cs_last_measurements'[s],
                              cs_measurement_index'[s], v, 5) ]_vars

\* A sixth push has wrapped around: slot 0 holds the newest sample, slot 1
\* still holds the sample pushed four cycles before it.
C12_Witness ==
    /\ recent = << F32(126 * UnitsPerVolt, 10), 0, 0, 9 * UnitsPerVolt,
                   10 * UnitsPerVolt >>
    /\ bat_measurement_index = 1
    /\ bat_last_measurements[0] = 10 * UnitsPerVolt
    /\ bat_last_measurements[1] = F32(126 * UnitsPerVolt, 10)
    /\ bat_last_measurements[4] = 9 * UnitsPerVolt
    /\ vs_measurement_index = 1
    /\ vs_last_measurements = bat_last_measurements
    /\ cs_measurement_index = [s \in 0 .. 1 |-> 1]
    /\ cs_last_measurements = [s \in 0 .. 1 |-> bat_last_measurements]

\* C13: in every reachable state every filter's buffer has exactly the slots
\* 0..4, all zero before the first push, and its cursor is one of 0..4, so the
\* slot a push writes is always inside the buffer.
C13_BufferAndCursorInRange ==
    /\ DOMAIN bat_last_measurements = 0 .. 4
    /\ bat_measurement_index \in 0 .. 4
    /\ DOMAIN vs_last_measurements = 0 .. 4
    /\ vs_measurement_index \in 0 .. 4
    /\ \A s \in 0 .. 1 :
           /\ DOMAIN cs_last_measurements[s] = 0 .. 4
           /\ cs_measurement_index[s] \in 0 .. 4
    /\ recent = << >> =>
           /\ \A i \in 0 .. 4 : bat_last_measurements[i] = 0
           /\ \A i \in 0 .. 4 : vs_last_measurements[i] = 0
           /\ \A s \in 0 .. 1 : \A i \in 0 .. 4 : cs_last_measurements[s][i] = 0

\* Nine pushes or more: every cursor has wrapped and stands on the last slot.
C13_Witness ==
    /\ Len(recent) = 5
    /\ bat_measurement_index = 4
    /\ vs_measurement_index = 4
    /\ cs_measurement_index = [s \in 0 .. 1 |-> 4]
    /\ \A i \in 0 .. 4 : bat_last_measurements[i] # 0
    /\ bat_last_measurements[3] = Newest

\* The last 5 samples were all v.
SteadyAt(v) == recent = << v, v, v, v, v >>

\* The difference of two values, without its sign.
Dist(a, b) == IF a >= b THEN a - b ELSE b - a

\* The samples for which five equal pushes give back the sample itself.
ExactSamples == Samples \ { battery_read_raw_voltage(2134) }

\* C14 as stated: after 5 consecutive pushes of the same value v, from any
\* filter state and cursor position, every filter's average equals v.
C14_SteadyAverageEqualsValue ==
    \A v \in Samples :
        SteadyAt(v) =>
            /\ get_debounced_voltage(bat_last_measurements) = v
            /\ voltage_sensing_get_debounced(vs_last_measurements) = v
            /\ \A s \in Sensors :
                   current_sensing_get_debounced(cs_last_measurements, s) = v

\* C14, amended: after 5 consecutive pushes of the same value v every
\* filter's average is within one float spacing of v, and equals v for 0 V,
\* 9.0 V, 10.0 V and the floats nearest 10.8 V and 12.6 V.
C14_SteadyAverageWithinOneUlp ==
    \A v \in Samples :
        SteadyAt(v) =>
            /\ Dist(get_debounced_voltage(bat_last_measurements), v) <= Ulp(v)
            /\ Dist(voltage_sensing_get_debounced(vs_last_measurements), v)
                   <= Ulp(v)
            /\ \A s \in Sensors :
                   Dist(current_sensing_get_debounced(cs_last_measurements, s),
                        v) <= Ulp(v)
            /\ v \in ExactSamples =>
                   /\ get_debounced_voltage(bat_last_measurements) = v
                   /\ voltage_sensing_get_debounced(vs_last_measurements) = v
                   /\ \A s \in Sensors :
                          current_sensing_get_debounced(cs_last_measurements,
                                                        s) = v

\* Five pushes of the 2134 mV reading, begun with the cursor on slot 3: the
\* reported average is the float just below the sample.
C14_Witness ==
    /\ SteadyAt(battery_read_raw_voltage(2134))
    /\ bat_measurement_index = 3
    /\ bat_report.valid
    /\ bat_report.debounced_voltage = battery_read_raw_voltage(2134) - 8
    /\ voltage_sensing_get_debounced(vs_last_measurements)
           = bat_report.debounced_voltage

\* The float sum of the first n samples of a sequence, in the order taken.
RECURSIVE SumPushed(_, _)
SumPushed(seq, n) ==
    IF n = 0 THEN 0 ELSE FAdd(SumPushed(seq, n - 1), seq[n])

\* C15: after n < 5 pushes since creation every filter's average is the sum of
\* the n pushed values divided by 5 (in float arithmetic), the unfilled slots
\* counting as zero; one push of 10.0 gives 2.0.
C15_ColdStartDividesByK ==
    Len(recent) < 5 =>
        LET mean == F32(SumPushed(recent, Len(recent)), 5)
        IN  /\ get_debounced_voltage(bat_last_measurements) = mean
            /\ voltage_sensing_get_debounced(vs_last_measurements) = mean
            /\ \A s \in Sensors :
                   current_sensing_get_debounced(cs_last_measurements, s) = mean
            /\ recent = << 10 * UnitsPerVolt >> => mean = 2 * UnitsPerVolt
            /\ bat_report.valid => bat_report.debounced_voltage = mean

C15_Witness ==
    /\ recent = << 10 * UnitsPerVolt >>
    /\ bat_report.valid
    /\ bat_report.debounced_voltage = 2 * UnitsPerVolt
    /\ voltage_sensing_get_debounced(vs_last_measurements) = 2 * UnitsPerVolt
    /\ current_sensing_get_debounced(cs_last_measurements, "SENSOR_2")
           = 2 * UnitsPerVolt

\* A voltage in units of 2^-20 V, the spacing of the floats from 8 V to 16 V.
InFine(voltage) == voltage \div 8

\* C16: state of charge is 100 from 12.6 V up, 0 up to 9.0 V, and between the
\* two the integer part of (voltage - 9.0) / (12.6 - 9.0) * 100, so that
\* soc(12.6) = 100, soc(9.0) = 0 and soc(10.8) = 50.
C16_SocIsTruncatedLinearClamp ==
    soc_call.valid =>
        LET v == soc_call.voltage
            s == soc_call.soc
            d == InFine(v) - 9 * 2^20
        IN  /\ 10 * InFine(v) >= 126 * 2^20 => s = 100
            /\ v <= 9 * UnitsPerVolt => s = 0
            /\ (10 * InFine(v) < 126 * 2^20 /\ v > 9 * UnitsPerVolt) =>
                   /\ s * (36 * 2^17) <= d * 125
                   /\ d * 125 < (s + 1) * (36 * 2^17)
            /\ v = F32(126 * UnitsPerVolt, 10) => s = 100
            /\ v = F32(108 * UnitsPerVolt, 10) => s = 50

C16_Witness ==
    /\ soc_call.valid
    /\ soc_call.voltage = F32(108 * UnitsPerVolt, 10)
    /\ soc_call.soc = 50

\* C17: whatever voltage calculate_soc is given (below zero, a cold-start
\* average, far above 12.6 V) its result is an integer in 0..100, and the
\* state of charge every battery cycle reports is in 0..100.
C17_SocInRange ==
    /\ soc_call.valid => soc_call.soc \in 0 .. 100
    /\ bat_report.valid => bat_report.soc \in 0 .. 100

\* A direct call with -2 V, next to a first battery cycle whose average is a
\* fifth of the one sample taken.
C17_Witness ==
    /\ soc_call.valid
    /\ soc_call.voltage = 0 - 2 * UnitsPerVolt
    /\ soc_call.soc = 0
    /\ bat_report.valid
    /\ recent = << F32(126 * UnitsPerVolt, 10) >>
    /\ bat_report.debounced_voltage = F32(126 * UnitsPerVolt, 5 * 10)
    /\ bat_report.soc = 0

\* The string starts with the keyword.
StartsWith(chars, keyword) ==
    /\ Len(chars) >= Len(keyword)
    /\ SubSeq(chars, 1, Len(keyword)) = keyword

\* The argument is absent or empty.
EmptyOrAbsent(command) == command.null \/ command.chars = << >>

\* The argument starts with one of the two keywords.
MatchesKeyword(command) ==
    /\ ~command.null
    /\ \/ StartsWith(command.chars, STR_SET_FREQ)
       \/ StartsWith(command.chars, STR_GET_STATUS)

\* The last line a call logged.
LastLine(call) == call.log[Len(call.log)]

\* C18 as stated: an empty or absent command and a non-empty command that
\* matches no keyword give results the caller can tell apart.
C18_MalformedAndUnknownDiffer ==
    \A i, j \in 1 .. Len(parseLog) :
        ( /\ EmptyOrAbsent(parseLog[i].command)
          /\ ~EmptyOrAbsent(parseLog[j].command)
          /\ ~MatchesKeyword(parseLog[j].command) )
            => parseLog[i].ret # parseLog[j].ret

\* C18, amended: the call logs the empty-command warning exactly when the
\* command is empty or absent and the unknown-command warning exactly when it
\* is non-empty and matches no keyword; in both cases, and in no other, it
\* returns false, so only the log line tells the two apart.
C18_RejectionsDifferOnlyInLog ==
    \A i \in 1 .. Len(parseLog) :
        LET call == parseLog[i]
        IN  /\ LastLine(call) = LOG_EMPTY <=> EmptyOrAbsent(call.command)
            /\ LastLine(call) = LOG_UNKNOWN <=>
                   (~EmptyOrAbsent(call.command) /\ ~MatchesKeyword(call.command))
            /\ call.ret = FALSE <=> LastLine(call) \in {LOG_EMPTY, LOG_UNKNOWN}

\* "" and then "PING": both calls return false, with different log lines.
C18_Witness ==
    /\ Len(parseLog) = 2
    /\ parseLog[1].command = Str(<< >>)
    /\ parseLog[2].command = Str(<< "P", "I", "N", "G" >>)
    /\ parseLog[1].ret = parseLog[2].ret
    /\ LastLine(parseLog[1]) = LOG_EMPTY
    /\ LastLine(parseLog[2]) = LOG_UNKNOWN

\* C19 as stated: the result names the keyword that matched, so a command
\* starting with SET_FREQ and one starting with GET_STATUS give different
\* results.
C19_ResultNamesKeyword ==
    \A i, j \in 1 .. Len(parseLog) :
        ( /\ ~parseLog[i].command.null
          /\ StartsWith(parseLog[i].command.chars, STR_SET_FREQ)
          /\ ~parseLog[j].command.null
          /\ StartsWith(parseLog[j].command.chars, STR_GET_STATUS) )
            => parseLog[i].ret # parseLog[j].ret

\* C19, amended: the call returns true exactly when the command starts,
\* case-sensitively, with SET_FREQ or with GET_STATUS, whatever follows the
\* keyword; the keyword that matched is named in the log line only.
C19_AcceptedIffKeywordPrefix ==
    \A i \in 1 .. Len(parseLog) :
        LET call == parseLog[i]
        IN  /\ call.ret = TRUE <=> MatchesKeyword(call.command)
            /\ LastLine(call) = LOG_SET_FREQ <=>
                   (~call.command.null
                        /\ StartsWith(call.command.chars, STR_SET_FREQ))
            /\ LastLine(call) = LOG_GET_STATUS <=>
                   (~call.command.null
                        /\ StartsWith(call.command.chars, STR_GET_STATUS))

\* "SET_FREQUENCY_X" is accepted, "set_freq" is not.
C19_Witness ==
    /\ Len(parseLog) = 2
    /\ parseLog[1].command
           = Str(STR_SET_FREQ \o << "U", "E", "N", "C", "Y", "_", "X" >>)
    /\ parseLog[1].ret = TRUE
    /\ LastLine(parseLog[1]) = LOG_SET_FREQ
    /\ parseLog[2].command = Str(<< "s", "e", "t", "_", "f", "r", "e", "q" >>)
    /\ parseLog[2].ret = FALSE

\* C20: a call of the parser leaves the filter buffers and cursors, the
\* current limit, the watchdog table and the tasks as they were, and two calls
\* with the same command have the same outcome whatever was called in between.
C20_ParseIsPure ==
    /\ [][ parseLog' # parseLog =>
               UNCHANGED << mainPc, taskVars, wdtVars, limitVars, filterVars,
                            lifeVars, readerVars, ownerVars, errVars >>
       ]_vars
    /\ [](\A i, j \in 1 .. Len(parseLog) :
              parseLog[i].command = parseLog[j].command =>
                  /\ parseLog[i].ret = parseLog[j].ret
                  /\ parseLog[i].log = parseLog[j].log)

\* The same command twice, the limit lowered, a sample taken and the 1 ms task
\* registered at some point before the second call returned.
C20_Witness ==
    /\ Len(parseLog) = 2
    /\ parseLog[1].command = Str(STR_SET_FREQ \o << ":", "1", "0", "0" >>)
    /\ parseLog[2] = parseLog[1]
    /\ parseLog[2].ret = TRUE
    /\ app_current_limit = F32(UnitsPerAmp, 20)
    /\ recent = << 10 * UnitsPerVolt >>
    /\ bat_measurement_index = 1
    /\ "task_1ms_core_1" \in DOMAIN twdt.entries

\* Task t has made a run call in this step.
Ran(t) == Len(last_read'[t]) = Len(last_read[t]) + 1

\* The sample a channel takes in a cycle whose read ended with err: that of
\* the count the ADC delivered, or, the read having failed, that of the count
\* 0 the local adc_raw was initialised with, 0 V.
Taken(err, good) == IF err = ESP_OK THEN good ELSE 0

Owner(f) == IF f = "battery" THEN "task_1000ms_core_1" ELSE "task_10ms_core_1"

\* C24 as stated: the buffer and cursor of a channel are written only by the
\* periodic task that owns the channel; every other context only reads.
C24_OnlyOwnerWrites == \A f \in Filters : writers[f] \subseteq { Owner(f) }

\* A step changes the battery filter, the load-voltage filter.
BatteryWritten ==
    \/ bat_last_measurements' # bat_last_measurements
    \/ bat_measurement_index' # bat_measurement_index
VoltageWritten ==
    \/ vs_last_measurements' # vs_last_measurements
    \/ vs_measurement_index' # vs_measurement_index

\* C24, amended: every push is made by the periodic task that owns the
\* channel, and no task writes another task's filter. The one write from
\* another context is the main task's battery_monitoring_init() inside
\* system_config_init(), which zeroes the battery buffer while no task has
\* been created yet; so no two contexts write a filter concurrently.
C24_OwnerWritesOnceTasksRun ==
    /\ [](/\ writers["battery"] \subseteq { Owner("battery"), MainTask }
          /\ \A f \in Filters \ { "battery" } :
                 writers[f] \subseteq { Owner(f) }
          /\ (\E t \in Tasks : pc[t] # "none") =>
                 mainPc # "system_config_init")
    /\ [][ /\ writers'["battery"] # writers["battery"] =>
                  \/ /\ mainPc = "system_config_init"
                     /\ \A t \in Tasks : pc[t] = "none" /\ pc'[t] = "none"
                  \/ /\ pc["task_1000ms_core_1"] \in { "init", "work" }
                     /\ pc'["task_1000ms_core_1"] # pc["task_1000ms_core_1"]
           /\ BatteryWritten =>
                  /\ Ran("task_1000ms_core_1")
                  /\ Owner("battery") \in writers'["battery"]
           /\ VoltageWritten =>
                  /\ Ran("task_10ms_core_1")
                  /\ Owner("voltage") \in writers'["voltage"]
           /\ cs_last_measurements' = cs_last_measurements
           /\ cs_measurement_index' = cs_measurement_index ]_vars

\* Both sensing tasks have pushed twice: the battery buffer has been written
\* by the main task (zeroed in system_config_init) and by its owner, the
\* load-voltage buffer by its owner alone.
C24_Witness ==
    /\ writers["battery"] = { MainTask, "task_1000ms_core_1" }
    /\ writers["voltage"] = { "task_10ms_core_1" }
    /\ writers["current_1"] = {}
    /\ bat_measurement_index = 2
    /\ vs_measurement_index = 2
    /\ bat_last_measurements[1] = battery_read_raw_voltage(2134)
    /\ vs_last_measurements[0] = 10 * UnitsPerVolt

\* The call from the other task has returned a value that is the average of
\* none of the buffer contents that existed while it ran.
Torn == reader.valid /\ reader.result \notin reader.seen

\* C25: a reader in another task that computes the average while the owner
\* pushes can return the average of no buffer content that ever existed
\* during the call (the witness is such a call). This takes two pushes or
\* more inside the call: a call that no push overlaps returns the average of
\* the buffer as it stood, and a call that one push overlaps returns the
\* average from before or from after that push.
C25_TornReadNeedsTwoPushes ==
    /\ Torn => reader.overlap >= 2
    /\ reader.valid /\ reader.overlap = 0 => Cardinality(reader.seen) = 1
    /\ reader.valid => Cardinality(reader.seen) <= reader.overlap + 1

\* From the zeroed buffer the reader adds slot 0 (0 V); the owner pushes 9.0 V
\* into slot 0 and 12.6 V into slot 1; the reader adds slots 1 to 4 and
\* returns 12.6 / 5 = 2.52 V, while the buffer averaged 0, 1.8 and 4.32 V.
C25_Witness ==
    /\ Torn
    /\ reader.overlap = 2
    /\ reader.result = F32(126 * UnitsPerVolt, 5 * 10)
    /\ reader.seen = { 0, F32(9 * UnitsPerVolt, 5),
                       F32(216 * UnitsPerVolt, 5 * 10) }
    /\ recent = << 9 * UnitsPerVolt, F32(126 * UnitsPerVolt, 10) >>

\* The generic filter of capacity K: K slots, all zero at first, and a cursor;
\* push writes the slot under the cursor and moves the cursor on, wrapping at
\* K; average is the float sum of the slots, first to last, divided by K.
GenericInit(K) == [ buf |-> [i \in 0 .. K - 1 |-> 0], cursor |-> 0 ]

GenericPush(f, v, K) ==
    [ buf |-> [f.buf EXCEPT ![f.cursor] = v], cursor |-> (f.cursor + 1) % K ]

RECURSIVE GenericSum(_, _)
GenericSum(f, n) ==
    IF n = 0 THEN 0 ELSE F32(GenericSum(f, n - 1) + f.buf[n - 1], 1)

GenericAverage(f, K) == F32(GenericSum(f, K), K)

\* The battery, the load-voltage and the two current filters as generic
\* filters.
BatFilter == [ buf |-> bat_last_measurements, cursor |-> bat_measurement_index ]
VsFilter == [ buf |-> vs_last_measurements, cursor |-> vs_measurement_index ]
CsFilter(s) ==
    [ buf |-> cs_last_measurements[s], cursor |-> cs_measurement_index[s] ]

\* C26: run side by side from initialisation on the same pushed values, the
\* battery, load-voltage and per-sensor current filters are each the generic
\* filter of capacity 5: they start as the generic filter starts, every push
\* takes each of them to the generic push of its state, and each returns the
\* generic average of its state, so all four agree in buffer, cursor and
\* average after every push.
C26_FiltersAreOneGenericFilter ==
    /\ [](/\ recent = << >> =>
                 /\ BatFilter = GenericInit(5)
                 /\ VsFilter = GenericInit(5)
                 /\ \A s \in 0 .. 1 : CsFilter(s) = GenericInit(5)
          /\ VsFilter = BatFilter
          /\ \A s \in 0 .. 1 : CsFilter(s) = BatFilter
          /\ get_debounced_voltage(bat_last_measurements)
                 = GenericAverage(BatFilter, 5)
          /\ voltage_sensing_get_debounced(vs_last_measurements)
                 = GenericAverage(VsFilter, 5)
          /\ \A s \in Sensors :
                 current_sensing_get_debounced(cs_last_measurements, s)
                     = GenericAverage(CsFilter(SensorIndex(s)), 5))
    /\ [][ /\ BatFilter' = GenericPush(BatFilter, Newest', 5)
           /\ VsFilter' = GenericPush(VsFilter, Newest', 5)
           /\ \A s \in 0 .. 1 :
                  CsFilter(s)' = GenericPush(CsFilter(s), Newest', 5) ]_vars

\* Seven pushes with different values: the four filters hold the same five
\* samples around the same cursor and return the same average, 10.48 V.
C26_Witness ==
    /\ recent = << 9 * UnitsPerVolt, 10 * UnitsPerVolt,
                   F32(108 * UnitsPerVolt, 10), 10 * UnitsPerVolt,
                   F32(126 * UnitsPerVolt, 10) >>
    /\ bat_measurement_index = 2
    /\ bat_last_measurements[1] = F32(126 * UnitsPerVolt, 10)
    /\ bat_last_measurements[2] = 9 * UnitsPerVolt
    /\ VsFilter = BatFilter
    /\ CsFilter(0) = BatFilter
    /\ CsFilter(1) = BatFilter
    /\ current_sensing_get_debounced(cs_last_measurements, "SENSOR_2")
           = bat_report.debounced_voltage
    /\ voltage_sensing_get_debounced(vs_last_measurements)
           = bat_report.debounced_voltage
    /\ bat_report.debounced_voltage > 10 * UnitsPerVolt

\* C28: in every battery cycle the raw sample is pushed first and the state of
\* charge is computed from the average of the buffer that already holds it:
\* the slot behind the cursor holds the reported raw sample, and the reported
\* average and state of charge are those of the filter's current contents.
C28_SocFromCurrentAverage ==
    bat_report.valid =>
        /\ bat_last_measurements[(bat_measurement_index + 4) % 5]
               = bat_report.raw_voltage
        /\ bat_report.raw_voltage = Newest
        /\ bat_report.debounced_voltage
               = get_debounced_voltage(bat_last_measurements)
        /\ bat_report.soc
               = calculate_soc(get_debounced_voltage(bat_last_measurements))

\* The fifth 12.6 V sample in a row: the state of charge reported is 100, that
\* of the average with the sample in it; the average before the push was four
\* fifths of 12.6 V or less, whose state of charge is 30 or less.
C28_Witness ==
    /\ SteadyAt(F32(126 * UnitsPerVolt, 10))
    /\ bat_measurement_index = 0
    /\ bat_report.valid
    /\ bat_report.raw_voltage = F32(126 * UnitsPerVolt, 10)
    /\ bat_report.soc = 100

\* C29: in every battery cycle the critical warning is logged iff the
\* debounced voltage of that cycle is at most 9.0 V; evaluating the predicate
\* and computing the state of charge change nothing: the only change of the
\* cycle to the battery filter is the push of the raw sample, and the current
\* limit stays as it was.
C29_CriticalIffAtMostEmpty ==
    /\ [](bat_report.valid =>
              /\ bat_report.critical
                     <=> bat_report.debounced_voltage <= 9 * UnitsPerVolt
              /\ bat_report.debounced_voltage
                     = get_debounced_voltage(bat_last_measurements))
    /\ [][ /\ bat_last_measurements'
                  = [bat_last_measurements
                        EXCEPT ![bat_measurement_index] = bat_report'.raw_voltage]
           /\ bat_measurement_index' = (bat_measurement_index + 1) % 5
           /\ app_current_limit' = app_current_limit ]_vars

\* Five samples of exactly 9.0 V: the average is 9.0 V and the warning is
\* logged.
C29_Witness ==
    /\ SteadyAt(9 * UnitsPerVolt)
    /\ bat_report.valid
    /\ bat_report.debounced_voltage = 9 * UnitsPerVolt
    /\ bat_report.critical
    /\ bat_report.soc = 0

\* The place of a call in the log, 0 if it has not been made.
CallAt(op, c) ==
    IF \E i \in 1 .. Len(lifeLog) : lifeLog[i] = [ op |-> op, component |-> c ]
    THEN CHOOSE i \in 1 .. Len(lifeLog) :
             lifeLog[i] = [ op |-> op, component |-> c ]
    ELSE 0

\* The components system_config handles.
Components ==
    { "nvm", "error_handling", "bluetooth", "diagnostics", "command_parser",
      "voltage_sensing", "current_sensing", "battery_monitoring",
      "rtos_watchdog" }

\* C27: the teardown is one sequential pass in exactly the reverse of the
\* order of initialisation: every component is initialised once and taken
\* down at most once, after the whole initialisation; the watchdog is taken
\* down first and non-volatile storage last; and of any two components taken
\* down, the one initialised earlier is taken down later.
C27_TeardownReversesInit ==
    /\ \A i, j \in 1 .. Len(lifeLog) : lifeLog[i] = lifeLog[j] => i = j
    /\ \A c \in Components :
           CallAt("deinit", c) > 0 =>
               /\ \A d \in Components : CallAt("init", d) > 0
               /\ \A d \in Components : CallAt("init", d) < CallAt("deinit", c)
               /\ CallAt("deinit", "rtos_watchdog") > 0
               /\ CallAt("deinit", "rtos_watchdog") <= CallAt("deinit", c)
               /\ CallAt("deinit", "nvm") > 0
                      => CallAt("deinit", c) <= CallAt("deinit", "nvm")
    /\ CallAt("deinit", "nvm") > 0 =>
           \A c \in Components : CallAt("deinit", c) > 0
    /\ \A a, b \in Components :
           /\ CallAt("init", a) < CallAt("init", b)
           /\ CallAt("deinit", b) > 0
           => \/ CallAt("deinit", a) = 0
              \/ CallAt("deinit", a) > CallAt("deinit", b)
    /\ \A a, b \in Components :
           /\ CallAt("deinit", a) > 0
           /\ CallAt("init", a) < CallAt("init", b)
           => /\ CallAt("deinit", b) > 0
              /\ CallAt("deinit", b) < CallAt("deinit", a)

\* The teardown has run to its end, nvm_deinit() being the eighteenth call,
\* while a limit was requested and a command parsed.
C27_Witness ==
    /\ Len(lifeLog) = 18
    /\ lifeLog[1] = [ op |-> "init", component |-> "nvm" ]
    /\ lifeLog[9] = [ op |-> "init", component |-> "rtos_watchdog" ]
    /\ lifeLog[10] = [ op |-> "deinit", component |-> "rtos_watchdog" ]
    /\ lifeLog[18] = [ op |-> "deinit", component |-> "nvm" ]
    /\ reqLog # << >>
    /\ parseLog # << >>

\* The exact sum of the samples of a sequence.
RECURSIVE ExactSum(_, _)
ExactSum(seq, n) == IF n = 0 THEN 0 ELSE ExactSum(seq, n - 1) + seq[n]

\* The float mean of the last 5 samples, summed in the order they were taken.
WindowMean == F32(SumPushed(recent, 5), 5)

FromCursor(buf, idx) == [i \in 1 .. 5 |-> buf[(idx + i - 1) % 5]]

\* The slots of a buffer as a sequence, first slot first.
InSlotOrder(buf) == [i \in 1 .. 5 |-> buf[i - 1]]

Restarts == ~fatal /\ fatal'

\* A step in which the watchdog finds a missed deadline.
DeadlineMissed == now' = now + 1 /\ escalations' = escalations + 1

\* A step in which a call fails: a sensor read that pushes its fallback, a
\* command the parser rejects, a watchdog call answered with an error, or a
\* persistence call that returns false.
ErrorStep ==
    \/ cs_measurement_index' # cs_measurement_index
    \/ /\ parseLog' # parseLog
       /\ ~parseLog'[Len(parseLog')].ret
    \/ /\ lastErr' \in { ESP_ERR_INVALID_ARG, ESP_ERR_INVALID_STATE,
                          ESP_ERR_NOT_FOUND }
       /\ twdt' = twdt
       /\ UNCHANGED << now, errLog >>
    \/ /\ errLog' # errLog
       /\ errLog'[Len(errLog')].fn \in { "nvm_save", "nvm_load" }
       /\ ~errLog'[Len(errLog')].ret

C23_EveryTaskCyclesForever ==
    \A t \in Tasks :
        /\ []<><<TaskFeed(t)>>_vars
        /\ []<><<TaskWake(t)>>_vars

\* C31: in the runs in which every task completes every cycle on time and
\* feeds in every cycle, the watchdog never fires: the clock of every entry of
\* the watchdog's table, the entry of the context that called
\* rtos_watchdog_init included, stays below the 5 s timeout.
C31_OnTimeTasksKeepWatchdogQuiet ==
    /\ escalations = 0
    /\ ~fatal
    /\ \A c \in DOMAIN twdt.entries :
           twdt.entries[c] * MS_PER_S < twdt.timeout_ms

\* C32: a task that has fed and is blocked in the vTaskDelay of its cycle has
\* a period shorter than the watchdog timeout and is never blocked for longer
\* than the timeout, so that its next feed comes no later than the timeout
\* after the last one.
C32_PeriodsBelowTimeout ==
    \A t \in Tasks :
        pc[t] = "delay" =>
            /\ PeriodMs(t) < twdt.timeout_ms
            /\ delayLeft[t] * MS_PER_S <= twdt.timeout_ms

\* Every sample taken so far, the first cycles after the start included, was v.
ConstantAt(v) ==
    /\ recent # << >>
    /\ \A i \in DOMAIN recent : recent[i] = v

\* C33: while every raw battery voltage read since the initialisation is the
\* same v above 9.0 V, no cycle of the battery task, the first four included,
\* logs the critical warning, and none reports a state of charge of 0 when v
\* itself is worth 1 % or more.
C33_ConstantAboveEmptyNeverCritical ==
    \A v \in Samples :
        (ConstantAt(v) /\ ~LeEmpty(v)) =>
            /\ bat_report.valid
            /\ ~bat_report.critical
            /\ calculate_soc(v) >= 1 => bat_report.soc > 0

\* The buffer and cursor of filter f.
ChannelState(f) ==
    CASE f = "battery"   -> << bat_last_measurements, bat_measurement_index >>
      [] f = "voltage"   -> << vs_last_measurements, vs_measurement_index >>
      [] f = "current_1" -> << cs_last_measurements[0], cs_measurement_index[0] >>
      [] f = "current_2" -> << cs_last_measurements[1], cs_measurement_index[1] >>

\* A step in which filter f is updated: its cursor moves.
Updated(f) == ChannelState(f)'[2] # ChannelState(f)[2]

\* C34: a step that updates one filter stores into the one slot its cursor
\* pointed at, moves that cursor one further and leaves the buffer and cursor
\* of the three other filters and the current limit as they were; a
\* current_sensing_set_limit call changes no buffer and no cursor.
C34_ChannelsIndependent ==
    /\ [][\A f \in Filters :
             Updated(f) =>
                 /\ \A g \in Filters \ {f} :
                        ChannelState(g)' = ChannelState(g)
                 /\ app_current_limit' = app_current_limit
                 /\ reqLog' = reqLog
                 /\ \A i \in (0 .. 4) \ { ChannelState(f)[2] } :
                        ChannelState(f)'[1][i] = ChannelState(f)[1][i]
                 /\ ChannelState(f)'[2] = (ChannelState(f)[2] + 1) % 5]_vars
    /\ [][reqLog' # reqLog =>
             \A f \in Filters : ChannelState(f)' = ChannelState(f)]_vars
    /\ [][\A f \in Filters :
             ChannelState(f)' # ChannelState(f) => Updated(f)]_vars

\* Sensor 1 has stored 10 A and then a failed read, the limit has been set to
\* 0.05 A, and sensor 2, the load-voltage filter and the battery filter are
\* as the start left them.
C34_Witness ==
    /\ cs_measurement_index = [s \in 0 .. 1 |-> IF s = 0 THEN 2 ELSE 0]
    /\ cs_last_measurements[0][0] = read_raw_current(HwOk(3000))
    /\ cs_last_measurements[0][1] = 0
    /\ cs_last_measurements[1] = [i \in 0 .. 4 |-> 0]
    /\ vs_measurement_index = 0
    /\ vs_last_measurements = [i \in 0 .. 4 |-> 0]
    /\ bat_measurement_index = 0
    /\ ~bat_report.valid
    /\ app_current_limit = F32(UnitsPerAmp, 20)

\* C35: a voltage_sensing_get_debounced() call from another task during which
\* the owner pushes at most once returns the average the buffer had when the
\* call began or the average it has after that push, and no third value.
C35_OnePushGivesBeforeOrAfter ==
    (reader.valid /\ reader.overlap <= 1) =>
        /\ reader.result \in reader.seen
        /\ Cardinality(reader.seen) <= 2

\* From the zeroed buffer the reader adds slot 0 (0 V), the owner pushes 9.0 V
\* into slot 0, and the reader adds slots 1 to 4: it returns 0 V, the average
\* from before the push, while the buffer now averages 1.8 V.
C35_Witness ==
    /\ reader.valid
    /\ reader.overlap = 1
    /\ reader.seen = { 0, F32(9 * UnitsPerVolt, 5) }
    /\ reader.result = 0
    /\ voltage_sensing_get_debounced(vs_last_measurements)
           = F32(9 * UnitsPerVolt, 5)
    /\ recent = << 9 * UnitsPerVolt >>

\* Of two results of calculate_soc, the one for the lower voltage is not the
\* higher one.
SocOrdered(v1, s1, v2, s2) == v1 <= v2 => s1 <= s2

\* C36: state of charge never decreases as the voltage increases: of any two
\* calculate_soc calls, one after the other or one direct and one made by the
\* battery cycle, the call with the lower voltage does not return the higher
\* percentage, whether the voltages lie below 9.0 V, between the thresholds
\* or from 12.6 V up.
C36_SocMonotone ==
    /\ [][(soc_call.valid /\ soc_call'.valid) =>
             /\ SocOrdered(soc_call.voltage, soc_call.soc,
                           soc_call'.voltage, soc_call'.soc)
             /\ SocOrdered(soc_call'.voltage, soc_call'.soc,
                           soc_call.voltage, soc_call.soc)]_vars
    /\ []((soc_call.valid /\ bat_report.valid) =>
             /\ SocOrdered(soc_call.voltage, soc_call.soc,
                           bat_report.debounced_voltage, bat_report.soc)
             /\ SocOrdered(bat_report.debounced_voltage, bat_report.soc,
                           soc_call.voltage, soc_call.soc))

\* The float just below 12.6 V is worth 99 %, and the battery cycle has
\* reported 100 % for an average of 12.6 V: the pair lies across the full
\* threshold.
C36_Witness ==
    /\ soc_call.valid
    /\ soc_call.voltage = F32(126 * UnitsPerVolt, 10) - 8
    /\ soc_call.soc = 99
    /\ bat_report.valid
    /\ bat_report.debounced_voltage = F32(126 * UnitsPerVolt, 10)
    /\ bat_report.soc = 100

====
